---- MODULE Spec2Model ----
(***************************************************************************)
(* A model of parsetron (src/parsetron/parsetron.py): grammar elements and *)
(* the grammar compiler, the chart engine with its three strategies, the   *)
(* robust multi-token driver, incremental parsing, and tree extraction.    *)
(*                                                                         *)
(* Representation.  A word is a string; a phrase or token is a sequence of *)
(* words (" ".join is concatenation of word sequences, split() is the      *)
(* inverse on single-word tokens).  A raw text is a sequence of words and  *)
(* white-space items.  A grammar element is an object: it is named by an   *)
(* id and the element table maps ids to the object's fields, so that       *)
(* equality of ids is Python's object identity.  Python sets are iterated  *)
(* in one fixed order (SetToSeq).                                          *)
(***************************************************************************)
EXTENDS Integers, Sequences, FiniteSets, TLC

\* ------------------------------------------------------------------ bounds
MaxWords == 4
MaxMul == 3
MaxFed == 3
MaxAgendaWords == 2

\* IncrementalChart.__init__: the default capacity and its increment
init_size == 10
inc_size == 10

\* ------------------------------------------------------- sequence helpers
\* F of the value of x: x is evaluated once, whatever the number of times F
\* names its argument
With(F(_), x) == CHOOSE r \in {F(v) : v \in {x}} : TRUE

Chosen(S) == CHOOSE y \in S : TRUE

\* the elements of S in the order CHOOSE takes them, four at a turn
RECURSIVE SetToSeq(_)
SetToSeq(S) ==
  IF Cardinality(S) >= 4
  THEN LET a == Chosen(S)
           b == Chosen(S \ {a})
           c == Chosen(S \ {a, b})
           d == Chosen(S \ {a, b, c})
       IN <<a, b, c, d>> \o SetToSeq(S \ {a, b, c, d})
  ELSE IF S = {} THEN <<>>
  ELSE <<Chosen(S)>> \o SetToSeq(S \ {Chosen(S)})

RECURSIVE Flatten(_)
Flatten(ss0) ==
  With(LAMBDA ss : IF ss = <<>> THEN <<>>
                   ELSE Head(ss) \o Flatten(Tail(ss)),
       ss0)

RECURSIVE SumSeq(_)
SumSeq(ns0) ==
  With(LAMBDA ns : IF ns = <<>> THEN 0 ELSE Head(ns) + SumSeq(Tail(ns)),
       ns0)

Range(s) == {s[i] : i \in DOMAIN s}

\* a for loop over seq threading the rule state acc, one turn evaluated
\* before the next begins
RECURSIVE FoldSeq(_, _, _)
FoldSeq(Op(_, _), acc, seq) ==
  CHOOSE r \in {IF a[2] = <<>> THEN a[1]
                ELSE FoldSeq(Op, Op(a[1], Head(a[2])), Tail(a[2])) :
                a \in {<<acc, seq>>}} : TRUE

Rep(x, n) == [i \in 1..n |-> x]

\* Python's s[from:to]
Slice(s, from, to) ==
  LET hi == IF to > Len(s) THEN Len(s) ELSE to
  IN IF from >= hi THEN <<>> ELSE SubSeq(s, from + 1, hi)

\* ------------------------------------------------------------------ texts
SP == " "
TAB == "\t"
IsSpace(c) == c \in {SP, TAB}

RECURSIVE CollapseSpaces(_)
CollapseSpaces(s) ==
  IF s = <<>> THEN <<>>
  ELSE IF IsSpace(Head(s))
       THEN IF Tail(s) # <<>> /\ IsSpace(Head(Tail(s)))
            THEN CollapseSpaces(Tail(s))
            ELSE <<SP>> \o CollapseSpaces(Tail(s))
       ELSE <<Head(s)>> \o CollapseSpaces(Tail(s))

Strip(s) ==
  LET a == IF s # <<>> /\ IsSpace(Head(s)) THEN Tail(s) ELSE s
  IN IF a # <<>> /\ IsSpace(a[Len(a)]) THEN SubSeq(a, 1, Len(a) - 1) ELSE a

strip_string(string) == Strip(CollapseSpaces(string))

RECURSIVE split(_)
split(s) ==
  IF s = <<>> THEN <<>>
  ELSE IF IsSpace(Head(s)) THEN split(Tail(s))
       ELSE <<Head(s)>> \o split(Tail(s))

RECURSIVE JoinSP(_)
JoinSP(ws) ==
  IF ws = <<>> THEN <<>>
  ELSE IF Len(ws) = 1 THEN <<Head(ws)>>
       ELSE <<Head(ws), SP>> \o JoinSP(Tail(ws))

\* str.lower on the words of the texts
Lower(w) == CASE w = "T" -> "t" [] w = "I" -> "i" [] OTHER -> w
LowerPhrase(p) == [i \in DOMAIN p |-> Lower(p[i])]

\* --------------------------------------------------------------- elements
TerminalKinds ==
  {"StringCs", "String", "SetCs", "Set", "RegexCs", "Regex", "Null"}
ExpressionKinds == {"And", "Or"}
EnhanceKinds == {"Optional", "OneOrMore", "ZeroOrMore"}

\* name, variable_name and canonical_name are "None" until they are set;
\* has_name tells that set_name gave the name, bound that the class body
\* binds the object to a variable; post_funcs is the list of callbacks
GrammarElement(kind, exprs, strs) ==
  [kind |-> kind, exprs |-> exprs, strs |-> strs,
   has_name |-> FALSE, bound |-> FALSE, post_funcs |-> <<>>,
   ignore_in_result |-> FALSE,
   name |-> "None", variable_name |-> "None", canonical_name |-> "None",
   name_is_set |-> FALSE]

StringCs(word) == GrammarElement("StringCs", <<>>, {<<word>>})
String(word) == GrammarElement("String", <<>>, {<<Lower(word)>>})
SetCs(phrases) == GrammarElement("SetCs", <<>>, phrases)
\* a wrong Set: only its one-word phrases can match
SetOfWords(phrases) ==
  GrammarElement("Set", <<>>,
                 {LowerPhrase(p) : p \in {q \in phrases : Len(q) = 1}})
Set(phrases) ==
  GrammarElement("Set", <<>>, {LowerPhrase(p) : p \in phrases})
\* RegexCs.__init__ / Regex.__init__ on a pattern string, and on a compiled
\* pattern object.  A pattern is the sequence of its symbols: "(", "|", ")",
\* "^", "$" and literal characters; the one string of the element is the
\* pattern that is compiled.
RegexCs(pattern, match_whole) ==
  GrammarElement("RegexCs", <<>>,
                 {IF match_whole THEN <<"^">> \o pattern \o <<"$">>
                  ELSE pattern})
Regex(pattern, match_whole) ==
  [RegexCs(pattern, match_whole) EXCEPT !.kind = "Regex"]
RegexOfCompiled(compiled) == GrammarElement("Regex", <<>>, {compiled})
And(exprs) == GrammarElement("And", exprs, {})
Or(exprs) == GrammarElement("Or", exprs, {})
\* a wrong Optional: the element repeats instead of being optional
OptionalRepeats(expr) == GrammarElement("OneOrMore", <<expr>>, {})
Optional(expr) == GrammarElement("Optional", <<expr>>, {})
OneOrMore(expr) == GrammarElement("OneOrMore", <<expr>>, {})
ZeroOrMore(expr) == GrammarElement("ZeroOrMore", <<expr>>, {})
Null ==
  [GrammarElement("Null", <<>>, {}) EXCEPT !.has_name = TRUE, !.name = "NULL"]

set_name(e, name) == [e EXCEPT !.has_name = TRUE, !.name = name]
Bound(e) == [e EXCEPT !.bound = TRUE]
ignore(e) == [e EXCEPT !.ignore_in_result = TRUE]

\* Python values held by a parse result, tagged by their type: a lexicon
\* string (its words), a list, an int, a tuple of ints, a ParseResult
VStr(words) == [kind |-> "str", val |-> words]
VList(items) == [kind |-> "list", val |-> items]
VInt(n) == [kind |-> "int", val |-> n]
VTuple(ns) == [kind |-> "tuple", val |-> ns]
VResult(r) == [kind |-> "ParseResult", val |-> r]

\* the callbacks the grammars pass to set_result_action: the lambda of
\* replace_result_with, times2int of the test grammar, result_sum of
\* grammars/numbers.py and add_rgb_to_result of grammars/colors.py
Callback(f, arg) == [f |-> f, arg |-> arg]
times2int == Callback("times2int", VInt(0))
result_sum == Callback("result_sum", VInt(0))
add_rgb_to_result == Callback("add_rgb_to_result", VInt(0))

set_result_action(e, functions) == [e EXCEPT !.post_funcs = functions]
replace_result_with(e, value) ==
  set_result_action(e, <<Callback("set", value)>>)

is_terminal(e) == e.kind \in TerminalKinds
as_list(e) == e.kind \in {"OneOrMore", "ZeroOrMore"}

\* re: the positions where a match of pattern p that starts at position i of
\* string s can end.  Alternation binds weakest, a group is matched as a
\* unit, "^" holds at the start and "$" at the end of the string.
MetaSymbols == {"(", ")", "|", "^", "$"}

\* the nesting depth of position k of p
Depth(p, k) ==
  Cardinality({j \in 1..(k - 1) : p[j] = "("}) -
  Cardinality({j \in 1..(k - 1) : p[j] = ")"})

RECURSIVE MatchEnds(_, _, _)
MatchEnds(p, s, i) ==
  LET bars == {k \in DOMAIN p : p[k] = "|" /\ Depth(p, k) = 0} IN
  IF bars # {}
  THEN LET k == CHOOSE b \in bars : \A c \in bars : b <= c
       IN MatchEnds(SubSeq(p, 1, k - 1), s, i) \cup
          MatchEnds(SubSeq(p, k + 1, Len(p)), s, i)
  ELSE IF p = <<>> THEN {i}
  ELSE LET close == IF p[1] = "("
                    THEN CHOOSE k \in DOMAIN p :
                           /\ p[k] = ")" /\ Depth(p, k) = 1
                           /\ \A j \in 2..(k - 1) :
                                p[j] = ")" => Depth(p, j) > 1
                    ELSE 1
           first == CASE p[1] = "(" ->
                           MatchEnds(SubSeq(p, 2, close - 1), s, i)
                      [] p[1] = "^" -> IF i = 1 THEN {i} ELSE {}
                      [] p[1] = "$" -> IF i = Len(s) + 1 THEN {i} ELSE {}
                      [] OTHER -> IF i <= Len(s) /\ s[i] = p[1]
                                  THEN {i + 1} ELSE {}
       IN UNION {MatchEnds(SubSeq(p, close + 1, Len(p)), s, j) : j \in first}

\* the characters of a word, for the words longer than one character that
\* regex terminals are tried on, and the characters of a phrase
Chars(word) ==
  CASE word = "ab" -> <<"a", "b">>
    [] word = "bc" -> <<"b", "c">>
    [] word = "cd" -> <<"c", "d">>
    [] word = "abc" -> <<"a", "b", "c">>
    [] OTHER -> <<word>>

CharsOf(phrase) ==
  Flatten([i \in DOMAIN JoinSP(phrase) |-> Chars(JoinSP(phrase)[i])])

\* compiled.match(instring): a match that starts at the first character
re_match(compiled, instring) == MatchEnds(compiled, instring, 1) # {}

\* GrammarElement.parse / _parse of the atomic elements: progress is the
\* returned boolean (Null returns False without raising)
ParseException == "ParseException"
ParseReturn(progress) == [raised |-> "None", progress |-> progress]
ParseRaise(exception) == [raised |-> exception, progress |-> FALSE]

ElementParse(e, instring) ==
  CASE e.kind = "Null" -> ParseReturn(FALSE)
    [] e.kind \in {"StringCs", "SetCs"} ->
         IF instring \in e.strs THEN ParseReturn(TRUE)
         ELSE ParseRaise(ParseException)
    [] e.kind \in {"String", "Set"} ->
         IF LowerPhrase(instring) \in e.strs THEN ParseReturn(TRUE)
         ELSE ParseRaise(ParseException)
    [] e.kind = "RegexCs" ->
         IF \E c \in e.strs : re_match(c, CharsOf(instring))
         THEN ParseReturn(TRUE) ELSE ParseRaise(ParseException)
    [] e.kind = "Regex" ->
         IF \E c \in e.strs :
              re_match(LowerPhrase(c), LowerPhrase(CharsOf(instring)))
         THEN ParseReturn(TRUE) ELSE ParseRaise(ParseException)
    [] OTHER -> ParseRaise("GrammarException")

\* ------------------------------------------------------------ e * other
\* Python values passed as multiplier: tagged by their type
None == "None"
PyInt(v) == [type |-> "int", v |-> v, items |-> <<>>]
PyNone == [type |-> "NoneType", v |-> 0, items |-> <<>>]
PyFloat(v) == [type |-> "float", v |-> v, items |-> <<>>]
\* a pattern string: the k-th of the patterns of the regex tests
PyStr(k) == [type |-> "str", v |-> k, items |-> <<>>]
PyTuple(items) == [type |-> "tuple", v |-> 0, items |-> items]

\* the objects GrammarElement.__mul__ creates (in creation order) and the
\* object it returns, or ValueError
MulValueError == [error |-> "ValueError", res |-> None, new |-> <<>>]
MulResult(res, new) == [error |-> None, res |-> res, new |-> new]

\* a wrong MulInt: a multiplier below one is taken as one
MulIntAtLeastOne(self, k) ==
  IF k <= 1 THEN MulResult(self, <<>>)
  ELSE MulResult("m_and", <<<<"m_and", And(Rep(self, k))>>>>)
MulInt(self, k) ==
  IF k = 1 THEN MulResult(self, <<>>)
  ELSE IF k > 1
       THEN MulResult("m_and", <<<<"m_and", And(Rep(self, k))>>>>)
       ELSE MulValueError

MulRange(self, items) ==
  IF Len(items) \notin {1, 2} THEN MulValueError
  ELSE
  LET m0 == items[1]
      n == IF Len(items) = 1 THEN PyNone ELSE items[2]
      m == IF m0.type = "NoneType" THEN PyInt(0) ELSE m0
  IN IF m.type # "int" THEN MulValueError
     ELSE IF m.v < 0 THEN MulValueError
     ELSE IF n.type = "NoneType"
          THEN IF m.v = 0
               THEN MulResult("m_zero", <<<<"m_zero", ZeroOrMore(self)>>>>)
               ELSE IF m.v = 1
               THEN MulResult("m_one", <<<<"m_one", OneOrMore(self)>>>>)
               ELSE \* self * m + ZeroOrMore(self)
                    MulResult("m_and",
                      <<<<"m_rep", And(Rep(self, m.v))>>,
                        <<"m_zero", ZeroOrMore(self)>>,
                        <<"m_and", And(<<"m_rep", "m_zero">>)>>>>)
          ELSE IF n.type = "int" /\ n.v >= m.v
               THEN IF m.v = 0 /\ n.v = 1
                    THEN MulResult("m_opt", <<<<"m_opt", Optional(self)>>>>)
                    ELSE IF m.v = n.v
                    THEN MulResult("m_and",
                           <<<<"m_and", And(Rep(self, m.v))>>>>)
                    ELSE MulResult("m_and",
                           <<<<"m_opt", Optional(self)>>,
                             <<"m_and",
                               And(Rep(self, m.v) \o
                                   Rep("m_opt", n.v - m.v))>>>>)
               ELSE MulValueError

Mul(self, other) ==
  IF other.type = "int" THEN MulInt(self, other.v)
  ELSE IF other.type = "tuple" THEN MulRange(self, other.items)
  ELSE MulValueError

\* a table of objects from a sequence of <<id, fields>> pairs
Table(pairs) ==
  [id \in {pairs[i][1] : i \in DOMAIN pairs} |->
     LET i == CHOOSE j \in DOMAIN pairs : pairs[j][1] = id IN pairs[i][2]]

\* ------------------------------------------------------ grammar sources
\* A source is what a Grammar class body builds: the objects (before
\* streamlining), the GOAL object, and the names the class binds.  words is
\* the vocabulary the input sentences are drawn from, scenarios are fixed
\* sentences, and session tells whether the client goes on to feed its text
\* to incremental_parse after the batch calls.
Source(name, pairs, goal, words, scenarios, session) ==
  LET tab == Table(<<<<"NULL", Null>>>> \o pairs)
  IN [name |-> name, other |-> PyNone,
      elems |-> [tab EXCEPT ![goal].bound = TRUE],
      goal |-> goal, words |-> words, scenarios |-> scenarios,
      session |-> session, error |-> None]

\* test_parsetron.py TestMul: s = String("t")('t'); GOAL = s * other
\* When the multiplication raises, the class statement raises with it: the
\* source keeps the objects made so far and has no GOAL.
MulSource(other) ==
  LET r == Mul("s", other)
      made == <<<<"s", set_name(String("t"), "t")>>>> \o r.new
  IN IF r.error = None
     THEN [Source("Mul", made, r.res, {"t"}, {}, FALSE)
             EXCEPT !.other = other]
     ELSE [Source("Mul", made, "s", {}, {}, FALSE)
             EXCEPT !.other = other, !.error = r.error, !.goal = None,
                    !.elems = Table(<<<<"NULL", Null>>>> \o made)]

MulInts == {PyInt(k) : k \in 1..MaxMul}
MulPairs ==
  {PyTuple(<<PyInt(m), PyInt(n)>>) :
     m \in 0..MaxMul, n \in 1..MaxMul} \cup
  {PyTuple(<<PyNone, PyInt(n)>>) : n \in 1..MaxMul}
MulOpen ==
  {PyTuple(<<PyInt(m)>>) : m \in 0..MaxMul} \cup
  {PyTuple(<<PyInt(m), PyNone>>) : m \in 0..MaxMul}
MulArgs == {o \in MulInts \cup MulPairs \cup MulOpen : Mul("s", o).error = None}

\* the multipliers test_mul expects a ValueError for, and the ranges of
\* MulPairs that end below their start
MulInvalid ==
  {PyInt(0), PyInt(-1), PyFloat(3), PyNone,
   PyTuple(<<PyFloat(3), PyInt(4)>>), PyTuple(<<PyInt(3), PyFloat(4)>>),
   PyTuple(<<PyInt(-1), PyInt(3)>>), PyTuple(<<PyInt(-1), PyNone>>),
   PyTuple(<<PyInt(1), PyInt(-1)>>), PyTuple(<<PyNone, PyInt(-1)>>),
   PyTuple(<<PyInt(1), PyInt(2), PyInt(3)>>)} \cup
  {o \in MulPairs : o.items[1].type = "int" /\ o.items[2].v < o.items[1].v}

\* test_topdown_init_rule: GOAL = String("a") + String("b")
CornerGrammar ==
  Source("Corner",
    <<<<"a", String("a")>>, <<"b", String("b")>>,
      <<"GOAL", And(<<"a", "b">>)>>>>,
    "GOAL", {"a", "b"}, {}, TRUE)

\* TestParser.test_full_trees: a = String("a"); b = String("a");
\* GOAL = a + b | b + a | a + a | b + b
FullGrammar ==
  Source("Full",
    <<<<"a", Bound(String("a"))>>, <<"b", Bound(String("a"))>>,
      <<"ab", And(<<"a", "b">>)>>, <<"ba", And(<<"b", "a">>)>>,
      <<"aa", And(<<"a", "a">>)>>, <<"bb", And(<<"b", "b">>)>>,
      <<"or1", Or(<<"ab", "ba">>)>>, <<"or2", Or(<<"or1", "aa">>)>>,
      <<"GOAL", Or(<<"or2", "bb">>)>>>>,
    "GOAL", {"a"}, {<<"a", SP, "x">>, <<"x", SP, "a", SP, "a">>}, TRUE)

\* TestOptional.test_o2: o1 = Optional(s); o2 = Optional(o1); GOAL = s + o2
OptionalGrammar2 ==
  Source("Optional2",
    <<<<"s", Bound(set_name(String("t"), "t"))>>,
      <<"o1", Bound(Optional("s"))>>, <<"o2", Bound(Optional("o1"))>>,
      <<"GOAL", And(<<"s", "o2">>)>>>>,
    "GOAL", {"t"}, {}, FALSE)

\* TestOptional.test_o3: o3 = Optional(Optional(s)); GOAL = s + o3
OptionalGrammar3 ==
  Source("Optional3",
    <<<<"s", Bound(set_name(String("t"), "t"))>>,
      <<"o", Optional("s")>>, <<"o3", Bound(Optional("o"))>>,
      <<"GOAL", And(<<"s", "o3">>)>>>>,
    "GOAL", {"t"}, {}, FALSE)

\* TestNullAnd.test_o2: o1 = Optional(s); o2 = ZeroOrMore(s); o3 = o1 + o2;
\* GOAL = s + o3
NullAndGrammar ==
  Source("NullAnd",
    <<<<"s", Bound(set_name(String("t"), "t"))>>,
      <<"o1", Bound(Optional("s"))>>, <<"o2", Bound(ZeroOrMore("s"))>>,
      <<"o3", Bound(And(<<"o1", "o2">>))>>,
      <<"GOAL", And(<<"s", "o3">>)>>>>,
    "GOAL", {"t"}, {}, TRUE)

\* the same grammar written in one expression, the inner sequence unbound:
\* GOAL = s + (Optional(s) + ZeroOrMore(s))
NullAndInline ==
  Source("NullAndInline",
    <<<<"s", set_name(String("t"), "t")>>,
      <<"o1", Optional("s")>>, <<"o2", ZeroOrMore("s")>>,
      <<"o3", And(<<"o1", "o2">>)>>,
      <<"GOAL", And(<<"s", "o3">>)>>>>,
    "GOAL", {"t"}, {}, FALSE)

\* a repetition that may be empty: s = String("t")('t'); GOAL = ZeroOrMore(s)
RepeatGrammar ==
  Source("Repeat",
    <<<<"s", Bound(set_name(String("t"), "t"))>>,
      <<"GOAL", ZeroOrMore("s")>>>>,
    "GOAL", {"t"}, {<<"t", SP, "x", SP, "t">>,
                    <<"x", SP, "t", SP, "x", SP, "t">>,
                    JoinSP(Rep("t", init_size + 1))}, FALSE)

\* a repetition of an element that may be empty: a = String("a");
\* GOAL = OneOrMore(Optional(a))
OptionalRepeatGrammar ==
  Source("OptionalRepeat",
    <<<<"a", Bound(String("a"))>>,
      <<"o", Optional("a")>>,
      <<"GOAL", OneOrMore("o")>>>>,
    "GOAL", {"a"}, {}, FALSE)

\* a sequence written in one expression under an Optional:
\* a = String("a"); b = String("b"); c = String("c"); d = String("d");
\* GOAL = d + Optional(a + b + c)
NestedSequenceGrammar ==
  Source("NestedSequence",
    <<<<"a", Bound(String("a"))>>, <<"b", Bound(String("b"))>>,
      <<"c", Bound(String("c"))>>, <<"d", Bound(String("d"))>>,
      <<"ab", And(<<"a", "b">>)>>, <<"abc", And(<<"ab", "c">>)>>,
      <<"o", Optional("abc")>>,
      <<"GOAL", And(<<"d", "o">>)>>>>,
    "GOAL", {}, {<<"d", SP, "a", SP, "b", SP, "c">>}, FALSE)

\* a terminal whose phrases nest: w = Set(["a", "x a b"]); GOAL = OneOrMore(w)
NestedGrammar ==
  Source("Nested",
    <<<<"w", Bound(Set({<<"a">>, <<"x", "a", "b">>}))>>,
      <<"GOAL", OneOrMore("w")>>>>,
    "GOAL", {},
    {<<"x", SP, "a", SP, "b">>, <<"a", SP, "x", SP, "a", SP, "b">>}, TRUE)

\* grammars/colored_light.py ColoredLightGrammar.  color and times come from
\* ColorsGrammar and TimesGrammar; they stand here with a few of their words
\* (none of their phrases can be made of the words of the scenario).
ColoredLightGrammar ==
  Source("ColoredLight",
    <<<<"on", Bound(Set({<<"turn", "on">>, <<"on">>, <<"hit">>}))>>,
      <<"off", Bound(Set({<<"turn", "off">>, <<"off">>, <<"kill">>}))>>,
      <<"on_off", Bound(Or(<<"on", "off">>))>>,
      <<"general_name",
        Bound(Set({<<"lights">>, <<"light">>, <<"lamp">>, <<"bulb">>,
                   <<"lightbulb">>}))>>,
      <<"specific_name",
        Bound(Set({<<"top">>, <<"bottom">>, <<"middle">>, <<"kitchen">>,
                   <<"living", "room">>, <<"bedroom">>, <<"bedside">>}))>>,
      <<"light_quantifiers", Bound(Set({<<"both">>, <<"all">>}))>>,
      <<"opt_q", Optional("light_quantifiers")>>,
      <<"zm_s", ZeroOrMore("specific_name")>>,
      <<"opt_g", Optional("general_name")>>,
      <<"ln1", And(<<"opt_q", "zm_s">>)>>,
      <<"light_name", Bound(And(<<"ln1", "opt_g">>))>>,
      <<"blink", Set({<<"blink">>, <<"flash">>})>>,
      <<"action_blink", Bound(Optional("blink"))>>,
      <<"brightness_more",
        Bound(Set({<<"bright">>, <<"brighter">>, <<"strong">>,
                   <<"stronger">>, <<"too", "dark">>}))>>,
      <<"brightness_less",
        Bound(Set({<<"less", "bright">>, <<"soft">>, <<"softer">>, <<"dim">>,
                   <<"dimmer">>, <<"too", "bright">>}))>>,
      <<"brightness", Bound(Or(<<"brightness_more", "brightness_less">>))>>,
      <<"saturation_more",
        Bound(Set({<<"deeper">>, <<"darker">>, <<"warmer">>,
                   <<"too", "cold">>}))>>,
      <<"saturation_less",
        Bound(Set({<<"lighter">>, <<"shallower">>, <<"colder">>,
                   <<"too", "warm">>}))>>,
      <<"saturation", Bound(Or(<<"saturation_less", "saturation_more">>))>>,
      <<"color",
        Bound(set_result_action(
                Set({<<"red">>, <<"green">>, <<"light", "blue">>}),
                <<add_rgb_to_result>>))>>,
      <<"special", Bound(Set({<<"once">>, <<"twice">>, <<"thrice">>}))>>,
      <<"numbers",
        Bound(set_result_action(
                Set({<<"one">>, <<"two">>, <<"three">>}),
                <<result_sum>>))>>,
      <<"times_word", ignore(Set({<<"times">>, <<"time">>}))>>,
      <<"numtimes", And(<<"numbers", "times_word">>)>>,
      <<"times", Bound(Or(<<"special", "numtimes">>))>>,
      <<"theme",
        Bound(Set({<<"christmas">>, <<"xmas">>, <<"halloween">>,
                   <<"romantic">>, <<"valentine">>, <<"valentine's">>,
                   <<"reading">>, <<"beach">>, <<"sunrise">>, <<"sunset">>}))>>,
      <<"a2", And(<<"light_name", "on_off">>)>>,
      <<"a3", And(<<"on_off", "light_name">>)>>,
      <<"oc1", Optional("color")>>, <<"ot1", Optional("times")>>,
      <<"a4i", And(<<"light_name", "oc1">>)>>,
      <<"a4", And(<<"a4i", "ot1">>)>>,
      <<"ot2", Optional("times")>>, <<"oc2", Optional("color")>>,
      <<"a5i", And(<<"light_name", "ot2">>)>>,
      <<"a5", And(<<"a5i", "oc2">>)>>,
      <<"a6", And(<<"light_name", "color">>)>>,
      <<"a7", And(<<"light_name", "brightness">>)>>,
      <<"a8", And(<<"brightness", "light_name">>)>>,
      <<"a9", And(<<"light_name", "saturation">>)>>,
      <<"a10", And(<<"saturation", "light_name">>)>>,
      <<"p2", Or(<<"on_off", "a2">>)>>, <<"p3", Or(<<"p2", "a3">>)>>,
      <<"p4", Or(<<"p3", "a4">>)>>, <<"p5", Or(<<"p4", "a5">>)>>,
      <<"p6", Or(<<"p5", "a6">>)>>, <<"p7", Or(<<"p6", "a7">>)>>,
      <<"p8", Or(<<"p7", "a8">>)>>, <<"p9", Or(<<"p8", "a9">>)>>,
      <<"p10", Or(<<"p9", "a10">>)>>,
      <<"one_parse", Bound(Or(<<"p10", "theme">>))>>,
      <<"oom1", OneOrMore("one_parse")>>,
      <<"oom2", OneOrMore("one_parse")>>,
      <<"g2", And(<<"action_blink", "oom2">>)>>,
      <<"GOAL", Or(<<"oom1", "g2">>)>>>>,
    "GOAL", {},
    {JoinSP(<<"I", "want", "to", "turn", "off", "the", "top", "light",
              "please">>)}, TRUE)

\* a sequence that names the shared NULL element: s = String("t")('t');
\* GOAL = s + NULL
NullSequenceGrammar ==
  Source("NullSequence",
    <<<<"s", Bound(set_name(String("t"), "t"))>>,
      <<"GOAL", And(<<"s", "NULL">>)>>>>,
    "GOAL", {"t"}, {}, FALSE)

\* grammars/times.py TimesGrammar with a few of its words; numbers stands for
\* NumbersGrammar.GOAL, a OneOrMore summed by result_sum over words replaced
\* by their value
TimesGrammar ==
  Source("Times",
    <<<<"once", replace_result_with(String("once"), VInt(1))>>,
      <<"twice", replace_result_with(String("twice"), VInt(2))>>,
      <<"special", Bound(Or(<<"once", "twice">>))>>,
      <<"two", replace_result_with(String("two"), VInt(2))>>,
      <<"five", replace_result_with(String("five"), VInt(5))>>,
      <<"single", Bound(Or(<<"two", "five">>))>>,
      <<"numbers",
        Bound(set_result_action(OneOrMore("single"), <<result_sum>>))>>,
      <<"times_word", ignore(Set({<<"times">>, <<"time">>}))>>,
      <<"numtimes", And(<<"numbers", "times_word">>)>>,
      <<"GOAL", Or(<<"special", "numtimes">>)>>>>,
    "GOAL", {},
    {JoinSP(<<"once">>), JoinSP(<<"five", "times">>),
     JoinSP(<<"two", "five", "times">>)}, TRUE)

\* an ignored element inside an Optional: a = String("a");
\* light = String("light").ignore(); GOAL = a + Optional(light)
IgnoredOptionalGrammar ==
  Source("IgnoredOptional",
    <<<<"a", Bound(String("a"))>>,
      <<"light", Bound(ignore(String("light")))>>,
      <<"opt", Optional("light")>>,
      <<"GOAL", And(<<"a", "opt">>)>>>>,
    "GOAL", {}, {JoinSP(<<"a", "light">>)}, TRUE)

\* an element with two callbacks, in the order of the set_result_action
\* docstring: n = String("n").set_result_action(lambda r: r.set([2, 5]),
\* result_sum); GOAL = OneOrMore(n).set_result_action(result_sum)
TwoActionsGrammar ==
  Source("TwoActions",
    <<<<"n", Bound(set_result_action(String("n"),
                     <<Callback("set", VList(<<VInt(2), VInt(5)>>)),
                       result_sum>>))>>,
      <<"GOAL", set_result_action(OneOrMore("n"), <<result_sum>>)>>>>,
    "GOAL", {}, {JoinSP(<<"n">>), JoinSP(<<"n", "n">>)}, TRUE)

\* two grammars over the same objects a = String("a"), b = String("b"),
\* c = String("c"), ab = a + b made outside the classes:
\* class Binding(Grammar): x = ab; GOAL = x + c
BindingGrammar ==
  Source("Binding",
    <<<<"a", String("a")>>, <<"b", String("b")>>, <<"c", String("c")>>,
      <<"x", Bound(And(<<"a", "b">>))>>, <<"GOAL", And(<<"x", "c">>)>>>>,
    "GOAL", {}, {JoinSP(<<"a", "b", "c">>)}, FALSE)

\* class Shared(Grammar): GOAL = ab + c   (x is the object ab, here unbound)
SharedGrammar ==
  Source("Shared",
    <<<<"a", String("a")>>, <<"b", String("b")>>, <<"c", String("c")>>,
      <<"x", And(<<"a", "b">>)>>, <<"GOAL", And(<<"x", "c">>)>>>>,
    "GOAL", {}, {JoinSP(<<"a", "b", "c">>)}, FALSE)

\* test_parsetron.py TestRegex.test_parse as grammars, GOAL = Regex(...),
\* parsing the words of the test; other is the pattern the user wrote.
RegexSource(elem, k) ==
  [Source("Regex", <<<<"GOAL", elem>>>>, "GOAL", {},
          {<<"ab">>, <<"bc">>, <<"cd">>, <<"abc">>}, FALSE)
     EXCEPT !.other = PyStr(k)]

\* the patterns r"(ab|bc)", r"ab|bc" and "ab", and the pattern of
\* re.compile("ab")
RegexPattern(k) ==
  CASE k = 1 -> <<"(", "a", "b", "|", "b", "c", ")">>
    [] k = 2 -> <<"a", "b", "|", "b", "c">>
    [] k = 3 -> <<"a", "b">>
    [] k = 4 -> <<"a", "b">>

\* Regex(pattern) for the three patterns and Regex(re.compile("ab"))
RegexSources ==
  {RegexSource(Regex(RegexPattern(k), TRUE), k) : k \in 1..3}
  \cup {RegexSource(RegexOfCompiled(RegexPattern(4)), 4)}

Sources ==
  {MulSource(o) : o \in MulArgs \cup MulInvalid} \cup RegexSources \cup
  {CornerGrammar, FullGrammar, OptionalGrammar2, OptionalGrammar3,
   NullAndGrammar, NullAndInline, NestedGrammar, ColoredLightGrammar,
   NullSequenceGrammar, TimesGrammar, IgnoredOptionalGrammar,
   TwoActionsGrammar, BindingGrammar, SharedGrammar, OptionalRepeatGrammar,
   NestedSequenceGrammar}

\* --------------------------------------------------------------- compiler
\* GrammarExpression.streamline / GrammarElementEnhance.streamline
\* a wrong test: a child bound to a name of the class is merged as well
CollapsibleWhenBound(tab, other, kind) ==
  /\ tab[other].kind = kind
  /\ tab[other].post_funcs = <<>>
  /\ ~tab[other].has_name
\* the test of streamline for merging a child expression into its parent
Collapsible(tab, other, kind) ==
  /\ tab[other].kind = kind
  /\ tab[other].post_funcs = <<>>
  /\ ~tab[other].has_name
  /\ tab[other].variable_name = "None"

RECURSIVE streamline(_, _)
RECURSIVE StreamlineEach(_, _)
StreamlineEach(tab, ids) ==
  IF ids = <<>> THEN tab
  ELSE StreamlineEach(streamline(tab, Head(ids)), Tail(ids))

streamline(tab, id) ==
  LET e == tab[id] IN
  IF e.kind \in ExpressionKinds
  THEN LET t1 == StreamlineEach(tab, e.exprs)
           ex == t1[id].exprs
           first == IF Len(ex) = 2 /\ Collapsible(t1, ex[1], e.kind)
                    THEN t1[ex[1]].exprs \o <<ex[2]>>
                    ELSE ex
           last == first[Len(first)]
           second == IF Len(ex) = 2 /\ Collapsible(t1, last, e.kind)
                     THEN SubSeq(first, 1, Len(first) - 1) \o t1[last].exprs
                     ELSE first
       IN [t1 EXCEPT ![id].exprs = second]
  ELSE IF e.kind \in EnhanceKinds
       THEN streamline(tab, e.exprs[1])
       ELSE tab

\* Production: value-equal by (lhs, rhs)
Production(tab, lhs, rhs) ==
  [lhs |-> lhs, rhs |-> rhs, is_terminal |-> is_terminal(tab[lhs])]

\* Production.factory
factory(tab, lhs, rhs) ==
  IF tab[lhs].kind \in ExpressionKinds
  THEN Production(tab, lhs, IF rhs # <<>> THEN rhs ELSE tab[lhs].exprs)
  ELSE IF tab[lhs].kind \in EnhanceKinds
       THEN Production(tab, lhs, IF rhs # <<>> THEN rhs ELSE tab[lhs].exprs)
       ELSE Production(tab, lhs, <<lhs>>)

is_recursive(prod) == \E i \in DOMAIN prod.rhs : prod.rhs[i] = prod.lhs

yield_productions(tab, id) ==
  LET e == tab[id] IN
  CASE e.kind = "And" -> {Production(tab, id, e.exprs)}
    [] e.kind = "Or" ->
         {Production(tab, id, <<e.exprs[i]>>) : i \in DOMAIN e.exprs}
    [] e.kind = "Optional" ->
         {factory(tab, id, <<"NULL">>), factory(tab, id, e.exprs)}
    [] e.kind = "OneOrMore" ->
         {factory(tab, id, e.exprs), factory(tab, id, <<e.exprs[1], id>>)}
    [] e.kind = "ZeroOrMore" ->
         {factory(tab, id, <<"NULL">>), factory(tab, id, e.exprs),
          factory(tab, id, <<e.exprs[1], id>>)}
    [] OTHER -> {factory(tab, id, <<>>)}

RECURSIVE _build_grammar_recursively(_, _)
_build_grammar_recursively(tab, id) ==
  LET e == tab[id] IN
  IF is_terminal(e) THEN yield_productions(tab, id)
  ELSE UNION {_build_grammar_recursively(tab, e.exprs[i]) :
                i \in DOMAIN e.exprs}
       \cup yield_productions(tab, id)

\* no expansion at all: a nullable child is never left out
no_combinations(rhs, null_elements) == {}
\* the index lists all_combinations yields for one RHS
all_combinations(rhs, null_elements) ==
  LET remove_indices == {i \in DOMAIN rhs : rhs[i] \in null_elements}
      Keep(remove) ==
        LET kept == DOMAIN rhs \ remove
            Nth(k) == CHOOSE i \in kept :
                        Cardinality({j \in kept : j < i}) = k - 1
        IN [k \in 1..Cardinality(kept) |-> Nth(k)]
  IN {Keep(remove) : remove \in SUBSET remove_indices \ {{}}}

NullProductionsOf(tab, productions) ==
  {p \in productions : \A i \in DOMAIN p.rhs : tab[p.rhs[i]].kind = "Null"}

IdentityProductionsOf(productions) ==
  {p \in productions : Len(p.rhs) = 1 /\ ~p.is_terminal /\ p.rhs[1] = p.lhs}

\* a wrong expansion: the production that was expanded is taken out
_eliminate_null_and_replace(tab, productions) ==
  LET null_productions == NullProductionsOf(tab, productions)
      p1 == productions \ null_productions
      null_elements == {p.lhs : p \in null_productions}
      p2 == p1 \ IdentityProductionsOf(p1)
      NewFor(prod) ==
        UNION {LET new_rhs == [k \in DOMAIN indices |-> prod.rhs[indices[k]]]
                   new_prod == factory(tab, prod.lhs, <<"NULL">>)
               IN IF Len(new_rhs) > 0
                  THEN {factory(tab, prod.lhs, new_rhs)}
                  ELSE IF new_prod \notin null_productions
                       THEN {new_prod} ELSE {} :
                 indices \in all_combinations(prod.rhs, null_elements)}
      new_prods == UNION {NewFor(prod) : prod \in p2}
  IN {prod \in p2 : all_combinations(prod.rhs, null_elements) = {}}
     \cup new_prods

_eliminate_null_and_expand(tab, productions) ==
  LET null_productions == NullProductionsOf(tab, productions)
      p1 == productions \ null_productions
      null_elements == {p.lhs : p \in null_productions}
      p2 == p1 \ IdentityProductionsOf(p1)
      NewFor(prod) ==
        UNION {LET new_rhs == [k \in DOMAIN indices |-> prod.rhs[indices[k]]]
                   new_prod == factory(tab, prod.lhs, <<"NULL">>)
               IN IF Len(new_rhs) > 0
                  THEN {factory(tab, prod.lhs, new_rhs)}
                  ELSE IF new_prod \notin null_productions
                       THEN {new_prod} ELSE {} :
                 indices \in all_combinations(prod.rhs, null_elements)}
      new_prods == UNION {NewFor(prod) : prod \in p2}
  IN p2 \cup new_prods

NullProduction == [lhs |-> "NULL", rhs |-> <<"NULL">>, is_terminal |-> TRUE]

\* sep.join(strs)
RECURSIVE join(_, _)
join(sep, strs) ==
  IF strs = <<>> THEN ""
  ELSE IF Len(strs) = 1 THEN strs[1]
       ELSE strs[1] \o sep \o join(sep, Tail(strs))

\* default_name of a terminal: its str.  A Set joins its phrases in the
\* iteration order of a Python set; the model takes one order.
default_name(e) ==
  IF e.kind = "Null" THEN "Null"
  ELSE IF e.kind \in {"RegexCs", "Regex"}
  THEN join("", CHOOSE c \in e.strs : TRUE)
  ELSE LET phrases == SetToSeq(e.strs)
       IN join("|", [i \in DOMAIN phrases |-> join(" ", phrases[i])])

\* GrammarElement.__str__: the display name of an element
__str__(tab, id) ==
  LET e == tab[id] IN
  IF e.name # "None" THEN e.name
  ELSE IF e.variable_name # "None" THEN e.variable_name
  ELSE IF e.canonical_name # "None" THEN e.canonical_name
  ELSE e.kind \o "(" \o default_name(e) \o ")"

\* _get_variable_name: the variable the class body binds the object to
_get_variable_name(tab, goal, id) ==
  IF ~tab[id].bound THEN "None" ELSE IF id = goal THEN "GOAL" ELSE id

_set_element_variable_name(tab, goal, id) ==
  LET ename == _get_variable_name(tab, goal, id)
  IN IF ename # "None"
     THEN [tab EXCEPT ![id].variable_name = ename, ![id].name_is_set = TRUE]
     ELSE tab

_set_element_canonical_name(tab, id) ==
  LET e == tab[id]
      expr_name ==
        IF e.kind \in EnhanceKinds THEN __str__(tab, e.exprs[1])
        ELSE IF e.kind \in ExpressionKinds
             THEN join(", ", [i \in DOMAIN e.exprs |-> __str__(tab, e.exprs[i])])
             ELSE default_name(e)
  IN [tab EXCEPT ![id].canonical_name = e.kind \o "(" \o expr_name \o ")",
                 ![id].name_is_set = TRUE]

RECURSIVE _set_element_name_recursively(_, _, _)
RECURSIVE SetNameEach(_, _, _)
SetNameEach(tab, goal, ids) ==
  IF ids = <<>> THEN tab
  ELSE SetNameEach(IF tab[Head(ids)].name_is_set THEN tab
                   ELSE _set_element_name_recursively(tab, goal, Head(ids)),
                   goal, Tail(ids))

_set_element_name_recursively(tab, goal, id) ==
  LET name_is_set == _get_variable_name(tab, goal, id) # "None"
      t1 == _set_element_variable_name(tab, goal, id)
      t2 == IF tab[id].kind \in ExpressionKinds
            THEN SetNameEach(t1, goal, tab[id].exprs)
            ELSE IF tab[id].kind \in EnhanceKinds
                 THEN _set_element_name_recursively(t1, goal, tab[id].exprs[1])
                 ELSE t1
  IN IF name_is_set THEN t2 ELSE _set_element_canonical_name(t2, id)

\* a wrong GrammarImpl: the expressions are streamlined before they are
\* named
GrammarImplNamedLast(src) ==
  LET flat == streamline(src.elems, src.goal)
      tab == _set_element_name_recursively(flat, src.goal, src.goal)
      built == _build_grammar_recursively(tab, src.goal)
      productions == _eliminate_null_and_expand(tab, built) \cup {NullProduction}
  IN [name |-> src.name, other |-> src.other, error |-> src.error,
      elems |-> IF src.error = None THEN tab ELSE src.elems,
      goal |-> src.goal,
      productions |-> IF src.error = None THEN productions ELSE {},
      lc_state |-> "none",
      _lc_words |-> [p \in {} |-> {}], _lc_cats |-> [p \in {} |-> {}]]
\* GrammarImpl.__init__: the compiled grammar of a source (elems, goal)
GrammarImpl(src) ==
  LET named == _set_element_name_recursively(src.elems, src.goal, src.goal)
      tab == streamline(named, src.goal)
      built == _build_grammar_recursively(tab, src.goal)
      productions == _eliminate_null_and_expand(tab, built) \cup {NullProduction}
  IN [name |-> src.name, other |-> src.other, error |-> src.error,
      elems |-> IF src.error = None THEN tab ELSE src.elems,
      goal |-> src.goal,
      productions |-> IF src.error = None THEN productions ELSE {},
      lc_state |-> "none",
      _lc_words |-> [p \in {} |-> {}], _lc_cats |-> [p \in {} |-> {}]]

\* the source src written after the class statement of the source first has
\* run: the objects the two share are as GrammarImpl(first) left them (named,
\* streamlined); the class body of src makes a new GOAL from them and binds
\* its own variables
After(first, src) ==
  LET left == GrammarImpl(first).elems
  IN [src EXCEPT !.elems =
        [id \in DOMAIN src.elems |->
           IF id \in DOMAIN first.elems /\ id # src.goal /\ id # first.goal
           THEN [left[id] EXCEPT !.bound = src.elems[id].bound]
           ELSE src.elems[id]]]

\* the grammars compiled from objects another grammar has compiled before
Recompiled ==
  {After(BindingGrammar, SharedGrammar), After(SharedGrammar, BindingGrammar),
   After(SharedGrammar, SharedGrammar), After(BindingGrammar, BindingGrammar),
   After(NullAndGrammar, NullAndGrammar), After(TimesGrammar, TimesGrammar)}

terminal2prod(g, lhs) == CHOOSE p \in g.productions : p.is_terminal /\ p.lhs = lhs
nonterminal2prod(g, lhs) == {p \in g.productions : ~p.is_terminal /\ p.lhs = lhs}
goal_productions(g) == {p \in g.productions : p.lhs = g.goal}

\* a wrong add_to_leftcorner: the productions of RHS[0] and no further
add_to_leftcorner_direct(g, c_prod, path) ==
  LET rhs == c_prod.rhs[1] IN
  IF is_terminal(g.elems[rhs])
  THEN [words |-> {terminal2prod(g, rhs)}, cats |-> {}, overflow |-> FALSE]
  ELSE [words |-> {}, cats |-> nonterminal2prod(g, rhs), overflow |-> FALSE]
\* GrammarImpl.build_leftcorner_table.  add_to_leftcorner follows RHS[0];
\* path holds the productions of the active calls, and meeting one of them
\* again is a recursion that never returns (RuntimeError in the constructor)
RECURSIVE add_to_leftcorner(_, _, _)
add_to_leftcorner(g, c_prod, path) ==
  LET rhs == c_prod.rhs[1] IN
  IF is_terminal(g.elems[rhs])
  THEN [words |-> {terminal2prod(g, rhs)}, cats |-> {}, overflow |-> FALSE]
  ELSE LET ccs == nonterminal2prod(g, rhs)
           sub == {IF cc \in path
                   THEN [words |-> {}, cats |-> {}, overflow |-> TRUE]
                   ELSE add_to_leftcorner(g, cc, path \cup {cc}) : cc \in ccs}
       IN [words |-> UNION {r.words : r \in sub},
           cats |-> ccs \cup UNION {r.cats : r \in sub},
           overflow |-> \E r \in sub : r.overflow]

\* a wrong table: the elements are renamed after their left corners
build_leftcorner_table_naming(g) ==
  LET rs == {<<prod, add_to_leftcorner(g, prod, {prod})>> :
               prod \in g.productions}
      r(prod) == (CHOOSE pr \in rs : pr[1] = prod)[2]
  IN IF \E pr \in rs : pr[2].overflow
     THEN [g EXCEPT !.lc_state = "RuntimeError"]
     ELSE [g EXCEPT !.lc_state = "built",
                    !.elems = [id \in DOMAIN g.elems |->
                                 [g.elems[id] EXCEPT !.name = "lc"]],
                    !._lc_words = [prod \in g.productions |-> r(prod).words],
                    !._lc_cats = [prod \in g.productions |->
                                    {prod} \cup r(prod).cats]]

build_leftcorner_table(g) ==
  LET rs == {<<prod, add_to_leftcorner(g, prod, {prod})>> :
               prod \in g.productions}
      r(prod) == (CHOOSE pr \in rs : pr[1] = prod)[2]
  IN IF \E pr \in rs : pr[2].overflow
     THEN [g EXCEPT !.lc_state = "RuntimeError"]
     ELSE [g EXCEPT !.lc_state = "built",
                    !._lc_words = [prod \in g.productions |-> r(prod).words],
                    !._lc_cats = [prod \in g.productions |->
                                    {prod} \cup r(prod).cats]]

get_left_corner_terminals(g, prod) ==
  IF prod \in DOMAIN g._lc_words THEN g._lc_words[prod] ELSE {}

get_left_corner_nonterminals(g, prod) ==
  IF prod \in DOMAIN g._lc_cats THEN g._lc_cats[prod] ELSE {prod}

filter_terminals_for_scan(g, lexicon) ==
  SetToSeq({prod \in g.productions :
              /\ prod.is_terminal
              /\ ElementParse(g.elems[prod.lhs], lexicon).progress})

filter_productions_for_prediction_by_rhs(g, rhs_starts_with) ==
  SetToSeq({prod \in g.productions : prod.rhs[1] = rhs_starts_with})

filter_productions_for_prediction_by_lhs(g, lhs) ==
  SetToSeq({prod \in g.productions : prod.lhs = lhs})

\* ------------------------------------------------------------------ edges
Edge(start, end, production, dot) ==
  [start |-> start, end |-> end, prod |-> production, dot |-> dot]

\* Python's None where an edge is expected
NoEdge == Edge(-1, -1, NullProduction, 0)

rhs_len(prod) == Len(prod.rhs)
is_complete(edge) == rhs_len(edge.prod) = edge.dot
get_rhs_after_dot(edge) ==
  IF is_complete(edge) THEN None ELSE edge.prod.rhs[edge.dot + 1]

\* a wrong scan: any terminal of the grammar may match, not the one after
\* the dot
scan_any_terminal(g, edge, phrase) ==
  IF rhs_len(edge.prod) # edge.dot
  THEN LET rhs == edge.prod.rhs[edge.dot + 1] IN
       IF is_terminal(g.elems[rhs])
       THEN \E t \in g.productions :
              t.is_terminal /\ ElementParse(g.elems[t.lhs], phrase).progress
       ELSE FALSE
  ELSE FALSE
\* Edge.scan_after_dot: the lexical progress (None for a non-terminal)
scan_after_dot(g, edge, phrase) ==
  IF rhs_len(edge.prod) # edge.dot
  THEN LET rhs == edge.prod.rhs[edge.dot + 1] IN
       IF is_terminal(g.elems[rhs])
       THEN ElementParse(g.elems[rhs], phrase).progress
       ELSE FALSE
  ELSE FALSE

\* a wrong merge: the new edge runs from the end of the child back to the
\* start of self
merge_backwards(self, edge) ==
  Edge(edge.end, self.start, self.prod, self.dot + 1)

merge_and_forward_dot(self, edge) ==
  Edge(self.start, edge.end, self.prod, self.dot + 1)

\* ------------------------------------------------------------------ chart

\* IncrementalChart(): edges is the union of the cells, an edge lying in
\* cell (start, end)
IncrementalChart ==
  [size |-> 0, max_size |-> init_size, chart_i |-> 0, edges |-> {},
   edge2backpointers |-> [e \in {} |-> {}]]

\* a wrong growth: the capacity stays what it was
increase_capacity_not(chart) == chart

increase_capacity(chart) == [chart EXCEPT !.max_size = @ + inc_size]

\* The table itself, a list of rows of cells.  Chart.__init__: size rows of
\* size empty cells
Chart_edges(size) == [i \in 1..size |-> [j \in 1..size |-> {}]]

\* IncrementalChart.increase_capacity on the table: the first max_size rows
\* are padded to the right, then inc_size rows of full width are appended
increase_capacity_edges(edges, max_size) ==
  [i \in DOMAIN edges |->
     IF i <= max_size THEN edges[i] \o [j \in 1..inc_size |-> {}]
     ELSE edges[i]]
  \o [i \in 1..inc_size |-> [j \in 1..(max_size + inc_size) |-> {}]]

\* the table of a chart: cell (start, end) holds the edges from start to end
TableOf(chart) ==
  [i \in 1..chart.max_size |->
     [j \in 1..chart.max_size |->
        {e \in chart.edges : e.start = i - 1 /\ e.end = j - 1}]]

\* a wrong bookkeeping: the children of the previous edge are forgotten
Chart_add_edge_last_child(chart, edge, prev_edge, child_edge) ==
  LET ret == edge \notin chart.edges
      c1 == [chart EXCEPT !.edges = @ \cup {edge}]
      bp == chart.edge2backpointers
      old == IF edge \in DOMAIN bp THEN bp[edge] ELSE {}
  IN [chart |->
        IF child_edge # NoEdge /\ edge # child_edge
        THEN [c1 EXCEPT !.edge2backpointers =
                [e \in DOMAIN bp \cup {edge} |->
                   IF e = edge THEN old \cup {<<child_edge>>} ELSE bp[e]]]
        ELSE c1,
      ret |-> ret]

\* Chart.add_edge: the backpointer bookkeeping
Chart_add_edge(chart, edge, prev_edge, child_edge) ==
  LET ret == edge \notin chart.edges
      c1 == [chart EXCEPT !.edges = @ \cup {edge}]
      bp == chart.edge2backpointers
      old == IF edge \in DOMAIN bp THEN bp[edge] ELSE {}
      new == IF prev_edge \in DOMAIN bp
             THEN {Append(prev_child_edges, child_edge) :
                     prev_child_edges \in bp[prev_edge]}
             ELSE {<<child_edge>>}
  IN [chart |->
        IF child_edge # NoEdge /\ edge # child_edge
        THEN [c1 EXCEPT !.edge2backpointers =
                [e \in DOMAIN bp \cup {edge} |->
                   IF e = edge THEN old \cup new ELSE bp[e]]]
        ELSE c1,
      ret |-> ret]

\* IncrementalChart.add_edge
add_edge(chart, edge, prev_edge, child_edge) ==
  LET c1 == IF edge.end >= chart.size
            THEN [chart EXCEPT !.size = edge.end + 1] ELSE chart
      c2 == IF c1.size >= c1.max_size THEN increase_capacity(c1) ELSE c1
  IN Chart_add_edge(c2, edge, prev_edge, child_edge)

\* the cells are visited by rising start; inside a cell the set order
CellSeq(chart, i, j) ==
  SetToSeq({e \in chart.edges : e.start = i /\ e.end = j})

Min(a, b) == IF a < b THEN a ELSE b

filter_edges_for_prediction(chart, end) ==
  Flatten([k \in 1..Min(chart.size, end + 1) |-> CellSeq(chart, k - 1, end)])

filter_edges_for_completion(chart, end, rhs_after_dot) ==
  SelectSeq(filter_edges_for_prediction(chart, end),
            LAMBDA e : rhs_len(e.prod) # e.dot
                       /\ e.prod.rhs[e.dot + 1] = rhs_after_dot)

\* a wrong filter: the complete edges that end, not start, at the position
filter_completed_edges_ending(chart, start, lhs) ==
  SelectSeq(Flatten([k \in 1..Min(chart.size, start + 1) |->
                       CellSeq(chart, k - 1, start)]),
            LAMBDA e : is_complete(e) /\ e.prod.lhs = lhs)

filter_completed_edges(chart, start, lhs) ==
  SelectSeq(Flatten([k \in 1..chart.size |-> CellSeq(chart, start, k - 1)]),
            LAMBDA e : is_complete(e) /\ e.prod.lhs = lhs)

\* ------------------------------------------------------------------ rules
\* The state a rule works on: the chart, the agenda (a stack, the last item
\* is popped first) and the accumulated return values (progressed).
RuleState(chart, agenda, progressed) ==
  [chart |-> chart, agenda |-> agenda, progressed |-> progressed]

\* a wrong enqueueing: the edge joins the agenda whether or not it is new
AddAndAppendAlways(st, edge, prev_edge, child_edge) ==
  LET r == add_edge(st.chart, edge, prev_edge, child_edge)
  IN [st EXCEPT !.chart = r.chart, !.agenda = Append(@, edge)]

\* "if chart.add_edge(edge, prev, child): agenda.append(edge)"
AddAndAppend(st, edge, prev_edge, child_edge) ==
  LET r == add_edge(st.chart, edge, prev_edge, child_edge)
  IN [st EXCEPT !.chart = r.chart,
                !.agenda = IF r.ret THEN Append(@, edge) ELSE @]

TopDownInitRule(g, st, phrase) ==
  LET Insert(s, prod) == AddAndAppend(s, Edge(0, 0, prod, 0), NoEdge, NoEdge)
      s1 == IF st.chart.size = 0
            THEN LET a == FoldSeq(Insert, st, SetToSeq(goal_productions(g)))
                 IN IF Len(a.agenda) = 0
                    THEN FoldSeq(Insert, a, SetToSeq(g.productions))
                    ELSE a
            ELSE st
  IN IF Len(s1.agenda) = 0
     THEN [s1 EXCEPT !.agenda =
             @ \o filter_edges_for_prediction(s1.chart, s1.chart.chart_i - 1)]
     ELSE s1

BottomUpScanRule(g, st, phrase) ==
  LET ci == st.chart.chart_i
      Scan(s, prod) ==
        [AddAndAppend(s, Edge(ci - 1, ci, prod, rhs_len(prod)), NoEdge, NoEdge)
           EXCEPT !.progressed = TRUE]
  IN FoldSeq(Scan, st, filter_terminals_for_scan(g, phrase))

TopDownPredictRule(g, st, edge, phrase) ==
  IF is_complete(edge) THEN st
  ELSE IF edge.end + 1 # st.chart.chart_i THEN st
  ELSE LET rhs == get_rhs_after_dot(edge)
           Predict(s, prod) ==
             AddAndAppend(s, Edge(edge.end, edge.end, prod, 0), NoEdge, NoEdge)
       IN IF is_terminal(g.elems[rhs]) THEN st
          ELSE FoldSeq(Predict, st,
                       filter_productions_for_prediction_by_lhs(g, rhs))

LeftCornerPredictScanRule(g, st, edge, phrase) ==
  IF is_complete(edge) THEN st
  ELSE
  LET rhs == get_rhs_after_dot(edge)
      productions == IF is_terminal(g.elems[rhs])
                     THEN {terminal2prod(g, rhs)}
                     ELSE nonterminal2prod(g, rhs)
      ci == st.chart.chart_i
      Predict(term, s, nonterm) ==
        IF term \in get_left_corner_terminals(g, nonterm)
        THEN AddAndAppend(s, Edge(ci - 1, ci - 1, nonterm, 0), NoEdge, NoEdge)
        ELSE s
      Scan(prod, s, term) ==
        IF ElementParse(g.elems[term.lhs], phrase).progress
        THEN LET s1 == [AddAndAppend(s, Edge(ci - 1, ci, term, rhs_len(term)),
                                     NoEdge, NoEdge)
                          EXCEPT !.progressed = TRUE]
             IN IF prod.is_terminal THEN s1
                ELSE FoldSeq(LAMBDA s2, nonterm : Predict(term, s2, nonterm),
                             s1,
                             SetToSeq(get_left_corner_nonterminals(g, prod)))
        ELSE s
      Each(s, prod) ==
        FoldSeq(LAMBDA s2, term : Scan(prod, s2, term), s,
                SetToSeq(get_left_corner_terminals(g, prod)))
  IN FoldSeq(Each, st, SetToSeq(productions))

BottomUpPredictRule(g, st, edge, phrase) ==
  IF ~is_complete(edge) THEN st
  ELSE LET Predict(s, production) ==
             AddAndAppend(s, Edge(edge.start, edge.start, production, 0),
                          NoEdge, NoEdge)
       IN FoldSeq(Predict, st,
                  filter_productions_for_prediction_by_rhs(g, edge.prod.lhs))

TopDownScanRule(g, st, edge, phrase) ==
  IF is_complete(edge) THEN st
  ELSE IF edge.end + 1 # st.chart.chart_i THEN st
  ELSE IF scan_after_dot(g, edge, phrase)
       THEN LET prod == terminal2prod(g, edge.prod.rhs[edge.dot + 1])
                ci == st.chart.chart_i
            IN [AddAndAppend(st, Edge(ci - 1, ci, prod, rhs_len(prod)),
                             NoEdge, NoEdge)
                  EXCEPT !.progressed = TRUE]
       ELSE st

apply_complete(st, edge) ==
  LET Move(s, filtered_edge) ==
        LET moved_edge == merge_and_forward_dot(filtered_edge, edge)
        IN IF edge # moved_edge
           THEN AddAndAppend(s, moved_edge, filtered_edge, edge)
           ELSE s
  IN FoldSeq(Move, st,
             filter_edges_for_completion(st.chart, edge.start, edge.prod.lhs))

\* a wrong completion: the incomplete edge is recorded as the child
apply_incomplete_swapped(st, edge) ==
  LET Move(s, filtered_edge) ==
        LET moved_edge == merge_and_forward_dot(edge, filtered_edge)
        IN IF edge # moved_edge
           THEN AddAndAppend(s, moved_edge, filtered_edge, edge)
           ELSE s
  IN FoldSeq(Move, st,
             filter_completed_edges(st.chart, edge.end,
                                    edge.prod.rhs[edge.dot + 1]))

apply_incomplete(st, edge) ==
  LET Move(s, filtered_edge) ==
        LET moved_edge == merge_and_forward_dot(edge, filtered_edge)
        IN IF edge # moved_edge
           THEN AddAndAppend(s, moved_edge, edge, filtered_edge)
           ELSE s
  IN FoldSeq(Move, st,
             filter_completed_edges(st.chart, edge.end,
                                    edge.prod.rhs[edge.dot + 1]))

\* a wrong rule: a complete edge from the agenda meets no edge of the chart
CompleteRuleOneWay(g, st, edge, phrase) ==
  IF is_complete(edge) THEN st
  ELSE apply_incomplete(st, edge)

CompleteRule(g, st, edge, phrase) ==
  IF is_complete(edge) THEN apply_complete(st, edge)
  ELSE apply_incomplete(st, edge)

\* ------------------------------------------------------------- strategies
TopDownStrategy == "TopDownStrategy"
BottomUpStrategy == "BottomUpStrategy"
LeftCornerStrategy == "LeftCornerStrategy"
Strategies == <<TopDownStrategy, BottomUpStrategy, LeftCornerStrategy>>

\* ParsingStrategy.init_rules / edge_rules, in list order
init_rules(strategy) ==
  CASE strategy = TopDownStrategy -> <<"TopDownInitRule">>
    [] strategy = BottomUpStrategy -> <<"BottomUpScanRule">>
    [] strategy = LeftCornerStrategy -> <<"TopDownInitRule">>

edge_rules(strategy) ==
  CASE strategy = TopDownStrategy ->
         <<"TopDownScanRule", "TopDownPredictRule", "CompleteRule">>
    [] strategy = BottomUpStrategy ->
         <<"BottomUpPredictRule", "CompleteRule">>
    [] strategy = LeftCornerStrategy ->
         <<"LeftCornerPredictScanRule", "CompleteRule">>

is_leftcorder(strategy) ==
  \E i \in DOMAIN edge_rules(strategy) :
     edge_rules(strategy)[i] = "LeftCornerPredictScanRule"

apply0(rule, g, st, phrase) ==
  CASE rule = "TopDownInitRule" -> TopDownInitRule(g, st, phrase)
    [] rule = "BottomUpScanRule" -> BottomUpScanRule(g, st, phrase)

apply1(rule, g, st, edge, phrase) ==
  CASE rule = "TopDownScanRule" -> TopDownScanRule(g, st, edge, phrase)
    [] rule = "TopDownPredictRule" -> TopDownPredictRule(g, st, edge, phrase)
    [] rule = "LeftCornerPredictScanRule" ->
         LeftCornerPredictScanRule(g, st, edge, phrase)
    [] rule = "BottomUpPredictRule" -> BottomUpPredictRule(g, st, edge, phrase)
    [] rule = "CompleteRule" -> CompleteRule(g, st, edge, phrase)

\* "for rule in self.strategy.init_rules": the state the agenda loop starts in
apply_init_rules(g, strategy, agenda, chart, phrase) ==
  FoldSeq(LAMBDA s, rule : apply0(rule, g, s, phrase),
          RuleState(chart, agenda, FALSE), init_rules(strategy))

\* "for rule in rules: progressed |= rule.apply(...)" on the edge at position
\* i of the agenda, which leaves the agenda
ApplyTo(g, rules, st, i, phrase) ==
  LET edge == st.agenda[i]
      s0 == [st EXCEPT !.agenda = SubSeq(@, 1, i - 1) \o
                                  SubSeq(@, i + 1, Len(@))]
  IN FoldSeq(LAMBDA s, rule : apply1(rule, g, s, edge, phrase), s0, rules)

\* one turn of the agenda loop: pop the last edge, apply the edge rules
PopAndApply(g, strategy, st, phrase) ==
  ApplyTo(g, edge_rules(strategy), st, Len(st.agenda), phrase)

RECURSIVE AgendaLoop(_, _, _, _)
AgendaLoop(g, strategy, st, phrase) ==
  IF Len(st.agenda) = 0 THEN st
  ELSE AgendaLoop(g, strategy, PopAndApply(g, strategy, st, phrase), phrase)

\* RobustParser._parse_single_token: the chart after the phrase and whether
\* a rule reported progress (the agenda is empty on return)
_parse_single_token(g, strategy, agenda, chart, phrase) ==
  AgendaLoop(g, strategy,
             apply_init_rules(g, strategy, agenda, chart, phrase), phrase)

\* ------------------------------------------------------------------ trees
\* a wrong TreeNode: the children are kept as the backpointers give them
TreeNodeNested(parent, children, lexicon) ==
  [parent |-> parent, lexicon |-> lexicon, children |-> children]
\* TreeNode.__init__: the children of a recursive production are spliced
TreeNode(parent, children, lexicon) ==
  [parent |-> parent, lexicon |-> lexicon,
   children |->
     IF is_recursive(parent.prod)
     THEN Flatten([i \in DOMAIN children |->
                     IF children[i].parent.prod.lhs = parent.prod.lhs
                     THEN children[i].children
                     ELSE <<children[i]>>])
     ELSE children]

RECURSIVE size(_)
size(node) ==
  1 + SumSeq([i \in DOMAIN node.children |-> size(node.children[i])])

\* a wrong product: only the first choice of each list
productOfFirsts(lists) ==
  IF \E i \in DOMAIN lists : lists[i] = <<>> THEN <<>>
  ELSE <<[i \in DOMAIN lists |-> lists[i][1]]>>
\* itertools.product(*lists), as a list of tuples
RECURSIVE product(_)
product(lists) ==
  IF lists = <<>> THEN << <<>> >>
  ELSE LET rest == product(Tail(lists))
       IN Flatten([i \in DOMAIN Head(lists) |->
                     [j \in DOMAIN rest |-> <<Head(lists)[i]>> \o rest[j]]])

Lexicon(tokens, edge) == Flatten(Slice(tokens, edge.start, edge.end))

\* Chart._trees: the list it returns
RECURSIVE _trees(_, _, _)
_trees(chart, parent_edge, tokens) ==
  LET lexicon == Lexicon(tokens, parent_edge)
      bp == chart.edge2backpointers
  IN IF parent_edge \in DOMAIN bp
     THEN LET tuples == SetToSeq(bp[parent_edge])
              Expand(children_edges) ==
                LET child_trees ==
                      [i \in DOMAIN children_edges |->
                         _trees(chart, children_edges[i], tokens)]
                    ts == product(child_trees)
                IN [j \in DOMAIN ts |-> TreeNode(parent_edge, ts[j], lexicon)]
          IN Flatten([k \in DOMAIN tuples |-> Expand(tuples[k])])
     ELSE <<TreeNode(parent_edge, <<>>, lexicon)>>

\* Chart._most_compact_trees returns a one-tree list.  The two sorts order
\* equal keys by comparing objects that define no order, so which of the
\* tied candidates comes first is not fixed: the operator is the set of
\* trees the call can return.
RECURSIVE _most_compact_trees(_, _, _)
_most_compact_trees(chart, parent_edge, tokens) ==
  LET lexicon == Lexicon(tokens, parent_edge)
      bp == chart.edge2backpointers
  IN IF parent_edge \in DOMAIN bp
     THEN LET tuples == bp[parent_edge]
              min_child_num ==
                CHOOSE n \in {Len(c) : c \in tuples} :
                  \A c \in tuples : n <= Len(c)
              min_children_edges == {c \in tuples : Len(c) = min_child_num}
              subs == {<<e, _most_compact_trees(chart, e, tokens)>> :
                         e \in UNION {Range(c) : c \in min_children_edges}}
              sub(e) == (CHOOSE pr \in subs : pr[1] = e)[2]
              Choices(c) ==
                {kids \in [DOMAIN c -> UNION {sub(c[i]) : i \in DOMAIN c}] :
                   \A i \in DOMAIN c : kids[i] \in sub(c[i])}
              Sum(kids) == SumSeq([i \in DOMAIN kids |-> size(kids[i])])
              First(c, kids) ==
                \A c2 \in min_children_edges \ {c} :
                   \E k2 \in Choices(c2) : Sum(k2) >= Sum(kids)
          IN UNION {{TreeNode(parent_edge, kids, lexicon) :
                       kids \in {k \in Choices(c) : First(c, k)}} :
                    c \in min_children_edges}
     ELSE {TreeNode(parent_edge, <<>>, lexicon)}

\* wrong roots: the goal is not asked for
rootsOfAnyLhs(chart, goal) ==
  {root \in chart.edges :
     /\ root.start = 0 /\ root.end = chart.size - 1
     /\ is_complete(root)}
\* Chart.trees: the root edges it walks
roots(chart, goal) ==
  {root \in chart.edges :
     /\ root.start = 0 /\ root.end = chart.size - 1
     /\ is_complete(root) /\ root.prod.lhs = goal}

\* Chart.trees raises ParseException on a chart without a token
trees_raises(chart) == chart.size <= 1

\* list(chart.trees(tokens, all_trees=True, goal))
all_trees(chart, tokens, goal) ==
  LET rs == SetToSeq(roots(chart, goal))
  IN Flatten([k \in DOMAIN rs |-> _trees(chart, rs[k], tokens)])

\* a wrong best tree: the first tree of any root, whatever its size
first_tree(chart, tokens, goal) ==
  IF trees_raises(chart) THEN {}
  ELSE UNION {_most_compact_trees(chart, root, tokens) :
                root \in roots(chart, goal)}
\* best_tree_with_parse_result(list(chart.trees(tokens, False, goal))): the
\* trees it can return; empty when it raises ParseException
best_tree(chart, tokens, goal) ==
  IF trees_raises(chart) THEN {}
  ELSE LET rs == roots(chart, goal)
           mcs == {<<root, _most_compact_trees(chart, root, tokens)>> :
                     root \in rs}
           mc(root) == (CHOOSE pr \in mcs : pr[1] = root)[2]
       IN UNION {{t \in mc(root) :
                    \A r2 \in rs \ {root} :
                       \E t2 \in mc(r2) : size(t2) >= size(t)} : root \in rs}

\* ---------------------------------------------------------- parse results
\* An object or None: the one-element or the empty sequence
Some(x) == <<x>>
Nothing == <<>>

\* ParseResult.__init__: _results is the dict of the record
ParseResult(name, lexicon, as_flat) ==
  [_name |-> name, _as_flat |-> as_flat,
   _results |-> (name :> IF as_flat THEN lexicon ELSE VList(<<lexicon>>))]

VNone == [kind |-> "NoneType", val |-> 0]

\* ParseResult.__setitem__
__setitem__(self, key, value) ==
  [self EXCEPT !._results =
     [k \in DOMAIN self._results \cup {key} |->
        IF k = key THEN value ELSE self._results[k]]]

\* ParseResult.get() without an item: the main value
get(self) ==
  IF self._name \in DOMAIN self._results THEN self._results[self._name]
  ELSE VNone

\* ParseResult.set
set(self, value) == __setitem__(self, self._name, value)

names(self) == DOMAIN self._results

\* a wrong add_item: the first value of a key is stored bare in every record
add_item_bare(self, k, v) ==
  IF k \notin DOMAIN self._results
  THEN __setitem__(self, k, v)
  ELSE IF self._results[k].kind # "list"
       THEN __setitem__(self, k, VList(<<self._results[k], v>>))
       ELSE __setitem__(self, k, VList(Append(self._results[k].val, v)))
\* ParseResult.add_item
add_item(self, k, v) ==
  IF k \notin DOMAIN self._results
  THEN __setitem__(self, k, IF self._as_flat THEN v ELSE VList(<<v>>))
  ELSE IF self._results[k].kind # "list"
       THEN __setitem__(self, k, VList(<<self._results[k], v>>))
       ELSE __setitem__(self, k, VList(Append(self._results[k].val, v)))

\* ParseResult.add_result.  The keys of result are distinct, so the order
\* in which its items are visited does not show.
RECURSIVE AddItems(_, _, _)
AddItems(self, result, keys) ==
  IF keys = <<>> THEN self
  ELSE AddItems(add_item(self, Head(keys), result._results[Head(keys)]),
                result, Tail(keys))

\* a wrong add_result: the items are added one by one whatever as_flat says
add_result_items(self, result, as_flat) ==
  AddItems(self, result, SetToSeq(names(result)))
add_result(self, result, as_flat) ==
  IF as_flat THEN AddItems(self, result, SetToSeq(names(result)))
  ELSE add_item(self, result._name, VResult(result))

\* color2rgb of grammars/colors.py, for the colours of the catalogue
color2rgb(words) ==
  CASE words = <<"red">> -> <<255, 0, 0>>
    [] words = <<"green">> -> <<0, 128, 0>>
    [] words = <<"light", "blue">> -> <<173, 216, 230>>

\* f(result) for the callbacks of the catalogue
Call(f, result) ==
  LET v == get(result) IN
  CASE f.f = "set" -> set(result, f.arg)
    [] f.f = "times2int" ->
         IF v = VStr(<<"once">>) THEN set(result, VInt(1))
         ELSE IF v = VStr(<<"twice">>) THEN set(result, VInt(2))
         ELSE IF v = VStr(<<"three", "times">>) THEN set(result, VInt(3))
         ELSE result
    [] f.f = "result_sum" ->
         IF v.kind = "list" /\ \A i \in DOMAIN v.val : v.val[i].kind = "int"
         THEN set(result, VInt(SumSeq([i \in DOMAIN v.val |-> v.val[i].val])))
         ELSE set(result, v)
    [] f.f = "add_rgb_to_result" ->
         __setitem__(result, "rgb", VTuple(color2rgb(v.val)))

\* one run of a callback: the node (its path of child positions from the
\* root) and the function
Run(path, f) == [path |-> path, f |-> f.f]

\* a wrong run_post_funcs: only the last callback runs
run_last_func(post_funcs, result, path, calls) ==
  IF post_funcs = <<>> THEN [result |-> Some(result), calls |-> calls]
  ELSE LET f == post_funcs[Len(post_funcs)]
       IN [result |-> Some(Call(f, result)),
           calls |-> Append(calls, Run(path, f))]
\* GrammarElement.run_post_funcs: the record after the callbacks and the
\* runs appended to calls
RECURSIVE run_post_funcs(_, _, _, _)
run_post_funcs(post_funcs, result, path, calls) ==
  IF post_funcs = <<>> THEN [result |-> Some(result), calls |-> calls]
  ELSE run_post_funcs(Tail(post_funcs), Call(Head(post_funcs), result),
                      path, Append(calls, Run(path, Head(post_funcs))))

is_leaf(node) == node.children = <<>>

\* a wrong main value: a single child's value is not unwrapped
new_lexicon_list(values, parent_as_flat) == VList(values)
\* the main value to_parse_result sets from the main values of the children
new_lexicon(values, parent_as_flat) ==
  IF Len(values) = 1 /\ parent_as_flat THEN values[1] ELSE VList(values)

\* TreeNode.to_parse_result: the record, or None, and the callback runs it
\* made, appended to calls.  path names the node.
RECURSIVE to_parse_result(_, _, _, _)
RECURSIVE ChildResults(_, _, _, _, _)
ChildResults(tab, kids, path, i, acc) ==
  IF i > Len(kids) THEN acc
  ELSE LET r == to_parse_result(tab, kids[i], Append(path, i), acc.calls)
       IN ChildResults(tab, kids, path, i + 1,
            IF r.result # Nothing
            THEN [children |-> Append(acc.children, kids[i]),
                  child_results |-> Append(acc.child_results, r.result[1]),
                  calls |-> r.calls]
            ELSE [acc EXCEPT !.calls = r.calls])

RECURSIVE AddResults(_, _, _, _)
AddResults(result, children, child_results, as_flats) ==
  IF children = <<>> THEN result
  ELSE AddResults(add_result(result, Head(child_results),
                             is_leaf(Head(children)) \/ Head(as_flats)),
                  Tail(children), Tail(child_results), Tail(as_flats))

to_parse_result(tab, self, path, calls) ==
  LET lhs == tab[self.parent.prod.lhs]
      name == __str__(tab, self.parent.prod.lhs)
      parent_as_flat == ~as_list(lhs)
  IN IF lhs.ignore_in_result \/ self.lexicon = <<>>
     THEN [result |-> Nothing, calls |-> calls]
     ELSE LET cr == ChildResults(tab, self.children, path, 1,
                      [children |-> <<>>, child_results |-> <<>>,
                       calls |-> calls])
              children == cr.children
              child_results == cr.child_results
              name2count(n) ==
                Cardinality({i \in DOMAIN child_results :
                               n \in names(child_results[i])})
              as_flats ==
                [i \in DOMAIN child_results |->
                   /\ parent_as_flat
                   /\ \A n \in names(child_results[i]) : name2count(n) = 1]
              result0 == ParseResult(name, VStr(self.lexicon), parent_as_flat)
              merged ==
                AddResults(result0, children, child_results, as_flats)
              values == [i \in DOMAIN child_results |->
                           get(child_results[i])]
              result == IF Len(children) # 0
                        THEN set(merged, new_lexicon(values, parent_as_flat))
                        ELSE result0
          IN run_post_funcs(lhs.post_funcs, result, path, cr.calls)

\* ----------------------------------------------------------------- parser

\* the texts a client passes for a source: every sentence of at most
\* MaxWords words over the vocabulary, blank texts, one text with irregular
\* white space, and the source's scenarios
RECURSIVE Sentences(_, _)
Sentences(words, n) ==
  IF n = 0 THEN {<<>>}
  ELSE LET shorter == Sentences(words, n - 1)
       IN shorter \cup {Append(ws, w) : ws \in shorter, w \in words}

Texts(src) ==
  {JoinSP(ws) : ws \in Sentences(src.words, MaxWords)}
  \cup {<<SP>>, <<TAB, SP>>}
  \cup {<<SP, w, TAB, SP, w, SP>> : w \in src.words}
  \cup src.scenarios

VARIABLES
  grammar,   \* the compiled grammar shared by the parsers
  string,    \* the text the client parses
  op,        \* the batch entry point the client uses
  parser,    \* strategy -> the fields of the RobustParser built with it
  pc,        \* the position inside the running call
  frame,     \* the local variables of the running call
  out,       \* strategy -> what the batch call returned
  inc,       \* strategy -> what the last incremental_parse returned
  client     \* the client's script: the parser it feeds incrementally,
             \* the words fed so far and where the running session began

vars == <<grammar, string, op, parser, pc, frame, out, inc, client>>

StrategySet == Range(Strategies)
Index(strategy) == CHOOSE i \in DOMAIN Strategies : Strategies[i] = strategy
Before(strategy) == {Strategies[i] : i \in 1..(Index(strategy) - 1)}

NotConstructed ==
  [constructed |-> FALSE, to_be_parsed |-> <<>>, accepted_tokens |-> <<>>,
   chart |-> Nothing]

NoFrame ==
  [op |-> "none", self |-> "none", is_final |-> FALSE,
   to_be_parsed |-> <<>>, all_parsed_tokens |-> <<>>, chart |-> Nothing,
   parsed_tokens |-> <<>>, progress |-> 0, num |-> 0, is_parsed |-> FALSE,
   tokens |-> <<>>, new_tokens |-> <<>>, progressed |-> FALSE,
   phrase_start |-> 0, phrase_end |-> 0, base |-> 0, attempts |-> {},
   turn |-> Nothing]

Pending == [status |-> "pending", found |-> FALSE, tree |-> Nothing,
            result |-> Nothing, calls |-> <<>>,
            tokens |-> <<>>, value |-> FALSE]
IncPending == [status |-> "pending", tree |-> Nothing, result |-> Nothing,
               calls |-> <<>>, is_final |-> FALSE, first |-> 0, last |-> 0]

\* the words the client feeds to incremental_parse
Words == split(strip_string(string))

\* the texts the client goes on to feed word by word: the scenarios and the
\* sentences of at most MaxFed words of the sources with a session
Fed(src, text) ==
  /\ src.session
  /\ \/ text \in src.scenarios
     \/ Len(split(strip_string(text))) <= MaxFed

Init ==
  \E src \in Sources \cup Recompiled :
    \E text \in Texts(src) :
      \E o \in {"parse", "print_parse"} :
       \E target \in IF o = "parse" /\ Fed(src, text) THEN StrategySet
                     ELSE {"none"} :
        /\ grammar = GrammarImpl(src)
        /\ string = text
        /\ op = o
        /\ parser = [p \in StrategySet |-> NotConstructed]
        /\ pc = "idle"
        /\ frame = NoFrame
        /\ out = [p \in StrategySet |-> Pending]
        /\ inc = [p \in StrategySet |-> IncPending]
        /\ client = [target |-> target, pos |-> 0, start |-> 0,
                   between |-> FALSE]

\* RobustParser.__init__; there is no grammar to build a parser on when the
\* class statement raised
RobustParser(strategy) ==
  /\ pc = "idle"
  /\ grammar.error = None
  /\ ~parser[strategy].constructed
  /\ \A q \in Before(strategy) : parser[q].constructed
  /\ grammar' = IF is_leftcorder(strategy)
                THEN build_leftcorner_table(grammar) ELSE grammar
  /\ parser' = [parser EXCEPT ![strategy] =
                  [constructed |-> grammar'.lc_state # "RuntimeError",
                   to_be_parsed |-> <<>>, accepted_tokens |-> <<>>,
                   chart |-> Nothing]]
  /\ UNCHANGED <<string, op, pc, frame, out, inc, client>>

\* a wrong head: the chart handed in is not used again
EnterMultiTokenAnew(f, tokens, chart) ==
  LET c0 == IncrementalChart
      c1 == [c0 EXCEPT !.chart_i = IF c0.size = 0 THEN 0 ELSE c0.size - 1]
  IN [f EXCEPT !.tokens = tokens, !.chart = Some(c1), !.new_tokens = <<>>,
               !.progressed = FALSE, !.phrase_start = 0, !.phrase_end = 0]

\* the head of _parse_multi_token(tokens, chart): the locals before the loop
EnterMultiToken(f, tokens, chart) ==
  LET c0 == IF chart = Nothing THEN IncrementalChart ELSE chart[1]
      c1 == [c0 EXCEPT !.chart_i = IF c0.size = 0 THEN 0 ELSE c0.size - 1]
  IN [f EXCEPT !.tokens = tokens, !.chart = Some(c1), !.new_tokens = <<>>,
               !.progressed = FALSE, !.phrase_start = 0, !.phrase_end = 0]

\* parse_multi_token_skip_reuse_chart(string) up to its loop, as called by
\* parse_string (the exception propagates) and by print_parse (it returns
\* False)
parse_multi_token_skip_reuse_chart(p) ==
  /\ pc = "idle"
  /\ \A q \in StrategySet : parser[q].constructed
  /\ out[p].status = "pending"
  /\ \A q \in Before(p) : out[q].status # "pending"
  /\ LET stripped == strip_string(string)
         tokens == split(stripped)
     IN IF Len(stripped) = 0
        THEN /\ out' = [out EXCEPT ![p] =
                          IF op = "parse"
                          THEN [Pending EXCEPT !.status = ParseException]
                          ELSE [Pending EXCEPT !.status = "returned"]]
             /\ UNCHANGED <<pc, frame>>
        ELSE /\ pc' = "skip_loop"
             /\ frame' = [NoFrame EXCEPT
                            !.op = op, !.self = p,
                            !.to_be_parsed = [i \in DOMAIN tokens |->
                                                <<tokens[i]>>]]
             /\ UNCHANGED out
  /\ UNCHANGED <<grammar, string, op, parser, inc, client>>

\* "while len(to_be_parsed) > 0": call _parse_multi_token or leave the loop
skip_loop ==
  /\ pc = "skip_loop"
  /\ IF Len(frame.to_be_parsed) > 0
     THEN /\ frame' = [EnterMultiToken(frame, frame.to_be_parsed, frame.chart)
                         EXCEPT !.base = Len(Words) - Len(frame.to_be_parsed)]
          /\ pc' = "phrase_loop"
     ELSE /\ pc' = "trees"
          /\ UNCHANGED frame
  /\ UNCHANGED <<grammar, string, op, parser, out, inc, client>>

\* a wrong loop body: every phrase tried takes a position of the chart
phrase_args_advancing ==
  LET advance == frame.progressed \/ frame.phrase_end = 0
      phrase_start == IF advance THEN frame.phrase_end
                      ELSE frame.phrase_start
  IN [chart |-> [frame.chart[1] EXCEPT !.chart_i = @ + 1],
      phrase_start |-> phrase_start, phrase_end |-> frame.phrase_end + 1,
      phrase |-> Flatten(Slice(frame.tokens, phrase_start,
                               frame.phrase_end + 1)),
      from |-> frame.base +
               Len(Flatten(Slice(frame.tokens, 0, phrase_start)))]

\* the body of "while phrase_end < length" in _parse_multi_token: the phrase
\* it tries and the chart it hands to _parse_single_token, and, on grammar
\* g, what _parse_single_token makes of it
phrase_args ==
  LET advance == frame.progressed \/ frame.phrase_end = 0
      phrase_start == IF advance THEN frame.phrase_end
                      ELSE frame.phrase_start
  IN [chart |-> IF advance
                THEN [frame.chart[1] EXCEPT !.chart_i = @ + 1]
                ELSE frame.chart[1],
      phrase_start |-> phrase_start, phrase_end |-> frame.phrase_end + 1,
      phrase |-> Flatten(Slice(frame.tokens, phrase_start,
                               frame.phrase_end + 1)),
      from |-> frame.base +
               Len(Flatten(Slice(frame.tokens, 0, phrase_start)))]

phrase_turn(g) ==
  LET a == phrase_args
  IN [phrase_start |-> a.phrase_start, phrase_end |-> a.phrase_end,
      phrase |-> a.phrase, from |-> a.from,
      r |-> _parse_single_token(g, frame.self, <<>>, a.chart, a.phrase)]

\* one turn of "while phrase_end < length" in _parse_multi_token
phrase_loop ==
  /\ pc = "phrase_loop"
  /\ frame.phrase_end < Len(frame.tokens)
  /\ \E t \in {phrase_turn(grammar)} :
        frame' = [frame EXCEPT
                    !.chart = Some(t.r.chart),
                    !.phrase_start = t.phrase_start,
                    !.phrase_end = t.phrase_end,
                    !.progressed = t.r.progressed,
                    !.new_tokens = IF t.r.progressed THEN Append(@, t.phrase)
                                   ELSE @,
                    !.attempts = @ \cup
                      {[from |-> t.from, to |-> t.from + Len(t.phrase),
                        progressed |-> t.r.progressed]}]
  /\ UNCHANGED <<grammar, string, op, parser, pc, out, inc, client>>

\* a wrong loop body: the token that begins no phrase stays pending
skip_loop_body_keeps ==
  /\ pc = "phrase_loop"
  /\ frame.phrase_end >= Len(frame.tokens)
  /\ frame.op \in {"parse", "print_parse"}
  /\ LET parsed_tokens == frame.new_tokens
         ret_len_in_single_tokens ==
           SumSeq([i \in DOMAIN parsed_tokens |-> Len(parsed_tokens[i])])
     IN IF ret_len_in_single_tokens = 0
        THEN /\ frame' = [frame EXCEPT !.parsed_tokens = parsed_tokens]
             /\ pc' = "skip_loop"
        ELSE IF ret_len_in_single_tokens = Len(frame.to_be_parsed)
        THEN /\ frame' = [frame EXCEPT
                            !.all_parsed_tokens = @ \o parsed_tokens,
                            !.parsed_tokens = parsed_tokens]
             /\ pc' = "trees"
        ELSE /\ frame' = [frame EXCEPT
                            !.all_parsed_tokens = @ \o parsed_tokens,
                            !.parsed_tokens = parsed_tokens,
                            !.to_be_parsed =
                              Slice(@, ret_len_in_single_tokens + 1, Len(@))]
             /\ pc' = "skip_loop"
  /\ UNCHANGED <<grammar, string, op, parser, out, inc, client>>

\* _parse_multi_token returns to the skip loop: the rest of the loop body
skip_loop_body ==
  /\ pc = "phrase_loop"
  /\ frame.phrase_end >= Len(frame.tokens)
  /\ frame.op \in {"parse", "print_parse"}
  /\ LET parsed_tokens == frame.new_tokens
         ret_len_in_single_tokens ==
           SumSeq([i \in DOMAIN parsed_tokens |-> Len(parsed_tokens[i])])
     IN IF ret_len_in_single_tokens = 0
        THEN /\ frame' = [frame EXCEPT !.to_be_parsed = Tail(@),
                                       !.parsed_tokens = parsed_tokens]
             /\ pc' = "skip_loop"
        ELSE IF ret_len_in_single_tokens = Len(frame.to_be_parsed)
        THEN /\ frame' = [frame EXCEPT
                            !.all_parsed_tokens = @ \o parsed_tokens,
                            !.parsed_tokens = parsed_tokens]
             /\ pc' = "trees"
        ELSE /\ frame' = [frame EXCEPT
                            !.all_parsed_tokens = @ \o parsed_tokens,
                            !.parsed_tokens = parsed_tokens,
                            !.to_be_parsed =
                              Slice(@, ret_len_in_single_tokens + 1, Len(@))]
             /\ pc' = "skip_loop"
  /\ UNCHANGED <<grammar, string, op, parser, out, inc, client>>

\* the best tree as an object-or-None, one value per tree the call can give
BestChoices(chart, tokens, goal) ==
  LET bt == best_tree(chart, tokens, goal)
  IN IF bt = {} THEN {Nothing} ELSE {Some(t) : t \in bt}

\* the client keeps the returned tree of the parser it goes on to feed
\* incrementally, and of the others whether a tree was returned
Kept(p, best) == IF p = client.target THEN best ELSE Nothing

\* best_tree.to_parse_result() in best_tree_with_parse_result, for the tree
\* the client keeps: the record (None when the root yields none) and the
\* callback runs of the call
best_parse(g, kept) ==
  IF kept = Nothing THEN [result |-> Nothing, calls |-> <<>>]
  ELSE to_parse_result(g.elems, kept[1], <<>>, <<>>)

\* a wrong parse_string: the chart of the call is kept as the chart of the
\* session
parse_string_keeps_chart ==
  /\ pc = "trees"
  /\ frame.op = "parse"
  /\ \E best \in BestChoices(frame.chart[1], frame.all_parsed_tokens,
                            grammar.goal) :
       out' = [out EXCEPT ![frame.self] =
                 [status |-> "returned", found |-> best # Nothing,
                  tree |-> Kept(frame.self, best),
                  result |-> best_parse(grammar, Kept(frame.self, best)).result,
                  calls |-> best_parse(grammar, Kept(frame.self, best)).calls,
                  tokens |-> frame.all_parsed_tokens, value |-> FALSE]]
  /\ parser' = [parser EXCEPT ![frame.self].chart = frame.chart]
  /\ pc' = "idle"
  /\ frame' = NoFrame
  /\ UNCHANGED <<grammar, string, op, inc, client>>

\* parse_string after parse_to_chart returned: (best_tree, best_parse), or
\* (None, None) when trees or best_tree_with_parse_result raise
parse_string ==
  /\ pc = "trees"
  /\ frame.op = "parse"
  /\ \E best \in BestChoices(frame.chart[1], frame.all_parsed_tokens,
                            grammar.goal) :
       out' = [out EXCEPT ![frame.self] =
                 [status |-> "returned", found |-> best # Nothing,
                  tree |-> Kept(frame.self, best),
                  result |-> best_parse(grammar, Kept(frame.self, best)).result,
                  calls |-> best_parse(grammar, Kept(frame.self, best)).calls,
                  tokens |-> frame.all_parsed_tokens, value |-> FALSE]]
  /\ pc' = "idle"
  /\ frame' = NoFrame
  /\ UNCHANGED <<grammar, string, op, parser, inc, client>>

\* print_parse(string, strict_match=True) after parse_to_chart returned
print_parse ==
  /\ pc = "trees"
  /\ frame.op = "print_parse"
  /\ \E best \in BestChoices(frame.chart[1], frame.all_parsed_tokens,
                            grammar.goal) :
       out' = [out EXCEPT ![frame.self] =
                 [status |-> "returned", found |-> best # Nothing,
                  tree |-> Kept(frame.self, best),
                  result |-> best_parse(grammar, Kept(frame.self, best)).result,
                  calls |-> best_parse(grammar, Kept(frame.self, best)).calls,
                  tokens |-> frame.all_parsed_tokens,
                  value |-> /\ best # Nothing
                            /\ string = JoinSP(Flatten(frame.all_parsed_tokens))]]
  /\ pc' = "idle"
  /\ frame' = NoFrame
  /\ UNCHANGED <<grammar, string, op, parser, inc, client>>

\* Sentences longer than MaxFed are fed with is_final on the last word
Finals(pos) ==
  IF Len(Words) > MaxFed THEN {pos + 1 = Len(Words)} ELSE BOOLEAN

\* a session that forgets nothing: the pending list survives a dropped chart
AppendPendingStale(self, chart, single_token) ==
  Append(self.to_be_parsed, single_token)
\* the head of incremental_parse_to_chart: "if chart is None:
\* self.to_be_parsed = []; self.to_be_parsed.append(single_token)"
AppendPending(self, chart, single_token) ==
  Append(IF chart = Nothing THEN <<>> ELSE self.to_be_parsed, single_token)

\* incremental_parse(single_token, is_final) up to the loop of
\* incremental_parse_to_chart; the client feeds the words of its text in order
incremental_parse(p) ==
  /\ pc = "idle"
  /\ op = "parse"
  /\ \A q \in StrategySet : out[q].status # "pending"
  /\ client.target = p
  /\ client.pos < Len(Words)
  /\ \E is_final \in Finals(client.pos) :
       LET single_token == <<Words[client.pos + 1]>>
           to_be_parsed == AppendPending(parser[p], parser[p].chart,
                                         single_token)
       IN /\ parser' = [parser EXCEPT ![p].to_be_parsed = to_be_parsed]
          /\ frame' = [NoFrame EXCEPT
                         !.op = "incremental_parse", !.self = p,
                         !.is_final = is_final,
                         !.chart = parser[p].chart,
                         !.num = Len(to_be_parsed)]
  /\ pc' = "incr_loop"
  /\ client' = [client EXCEPT !.pos = @ + 1]
  /\ UNCHANGED <<grammar, string, op, out, inc>>

\* a wrong loop: the suffixes of the pending list are tried shortest first
incremental_parse_to_chart_shortest ==
  /\ pc = "incr_loop"
  /\ IF frame.progress < frame.num /\ ~frame.is_parsed
     THEN LET pending == parser[frame.self].to_be_parsed
              single_list ==
                <<Flatten(Slice(pending, frame.num - 1 - frame.progress,
                                Len(pending)))>>
          IN /\ frame' = [EnterMultiToken(frame, single_list, frame.chart)
                            EXCEPT !.base = client.pos - 1 - frame.progress]
             /\ pc' = "phrase_loop"
     ELSE /\ pc' = "incr_return"
          /\ UNCHANGED frame
  /\ UNCHANGED <<grammar, string, op, parser, out, inc, client>>

\* "while progress < num and not is_parsed" of incremental_parse_to_chart
incremental_parse_to_chart ==
  /\ pc = "incr_loop"
  /\ IF frame.progress < frame.num /\ ~frame.is_parsed
     THEN LET pending == parser[frame.self].to_be_parsed
              single_list ==
                <<Flatten(Slice(pending, frame.progress, Len(pending)))>>
          IN /\ frame' = [EnterMultiToken(frame, single_list, frame.chart)
                            EXCEPT !.base = client.pos - frame.num
                                            + frame.progress]
             /\ pc' = "phrase_loop"
     ELSE /\ pc' = "incr_return"
          /\ UNCHANGED frame
  /\ UNCHANGED <<grammar, string, op, parser, out, inc, client>>

\* a wrong loop body: the pending list is kept when a suffix was parsed
incremental_loop_body_keeps ==
  /\ pc = "phrase_loop"
  /\ frame.phrase_end >= Len(frame.tokens)
  /\ frame.op = "incremental_parse"
  /\ LET is_parsed == Len(frame.new_tokens) > 0
     IN /\ frame' = [frame EXCEPT !.parsed_tokens = frame.new_tokens,
                                  !.is_parsed = is_parsed,
                                  !.progress = @ + 1]
        /\ UNCHANGED parser
  /\ pc' = "incr_loop"
  /\ UNCHANGED <<grammar, string, op, out, inc, client>>

\* _parse_multi_token returns to incremental_parse_to_chart: the rest of the
\* loop body
incremental_loop_body ==
  /\ pc = "phrase_loop"
  /\ frame.phrase_end >= Len(frame.tokens)
  /\ frame.op = "incremental_parse"
  /\ LET is_parsed == Len(frame.new_tokens) > 0
     IN /\ frame' = [frame EXCEPT !.parsed_tokens = frame.new_tokens,
                                  !.is_parsed = is_parsed,
                                  !.progress = @ + 1]
        /\ parser' = [parser EXCEPT ![frame.self].to_be_parsed =
                        IF is_parsed THEN <<>> ELSE @]
  /\ pc' = "incr_loop"
  /\ UNCHANGED <<grammar, string, op, out, inc, client>>

\* incremental_parse after incremental_parse_to_chart returned
incremental_parse_return ==
  /\ pc = "incr_return"
  /\ LET p == frame.self
         accepted_tokens == parser[p].accepted_tokens \o frame.parsed_tokens
     IN \E best \in BestChoices(frame.chart[1], accepted_tokens,
                               grammar.goal) :
          /\ parser' = [parser EXCEPT
                          ![p].chart = IF frame.is_final THEN Nothing
                                       ELSE frame.chart,
                          ![p].accepted_tokens = IF frame.is_final THEN <<>>
                                                 ELSE accepted_tokens]
          /\ inc' = [inc EXCEPT ![p] =
                       [status |-> "returned", tree |-> best,
                        result |-> best_parse(grammar, best).result,
                        calls |-> best_parse(grammar, best).calls,
                        is_final |-> frame.is_final,
                        first |-> client.start, last |-> client.pos]]
  /\ client' = [client EXCEPT !.start = IF frame.is_final THEN client.pos
                                         ELSE @]
  /\ pc' = "idle"
  /\ frame' = NoFrame
  /\ UNCHANGED <<grammar, string, op, out>>

\* RobustParser.clear_cache, between two incremental calls of a session on a
\* sentence of at most MaxFed words
clear_cache(p) ==
  /\ pc = "idle"
  /\ client.target = p
  /\ client.start < client.pos
  /\ Len(Words) <= MaxFed
  /\ parser' = [parser EXCEPT ![p].to_be_parsed = <<>>,
                              ![p].accepted_tokens = <<>>,
                              ![p].chart = Nothing]
  /\ client' = [client EXCEPT !.start = client.pos]
  /\ UNCHANGED <<grammar, string, op, pc, frame, out, inc>>

Next ==
  \/ \E p \in StrategySet : RobustParser(p)
  \/ \E p \in StrategySet : parse_multi_token_skip_reuse_chart(p)
  \/ skip_loop
  \/ phrase_loop
  \/ skip_loop_body
  \/ parse_string
  \/ print_parse
  \/ \E p \in StrategySet : incremental_parse(p)
  \/ incremental_parse_to_chart
  \/ incremental_loop_body
  \/ incremental_parse_return
  \/ \E p \in StrategySet : clear_cache(p)

Spec == Init /\ [][Next]_vars

\* ------------------------------------------------- the agenda, edge by edge
\* _parse_single_token taken apart: frame.turn holds its arguments and its
\* locals (the chart and the agenda as st) while the agenda loop runs.  The
\* edge that leaves the agenda and the order of the edge rules are free;
\* as_coded records whether every turn so far took the last edge and applied
\* the rules in list order.
Orders(rules) ==
  {[k \in DOMAIN rules |-> rules[f[k]]] :
     f \in {h \in [DOMAIN rules -> DOMAIN rules] :
              \A i, j \in DOMAIN rules : i # j => h[i] # h[j]}}

\* the grammars and texts parsed edge by edge
AgendaSources ==
  {CornerGrammar, OptionalGrammar2, NullSequenceGrammar,
   TwoActionsGrammar, IgnoredOptionalGrammar, TimesGrammar}

AgendaTexts(src) ==
  {JoinSP(ws) : ws \in Sentences(src.words, MaxAgendaWords)}
  \cup src.scenarios

StartOn(sources) ==
  \E src \in sources :
    \E text \in AgendaTexts(src) :
      /\ grammar = GrammarImpl(src)
      /\ string = text
      /\ op = "parse"
      /\ parser = [p \in StrategySet |-> NotConstructed]
      /\ pc = "idle"
      /\ frame = NoFrame
      /\ out = [p \in StrategySet |-> Pending]
      /\ inc = [p \in StrategySet |-> IncPending]
      /\ client = [target |-> "none", pos |-> 0, start |-> 0,
                 between |-> FALSE]

AgendaInit == StartOn(AgendaSources)

\* "for rule in self.strategy.init_rules"
init_rules_turn ==
  /\ pc = "phrase_loop"
  /\ frame.phrase_end < Len(frame.tokens)
  /\ LET a == phrase_args
     IN frame' = [frame EXCEPT !.turn =
                    Some([chart |-> a.chart, phrase |-> a.phrase,
                          phrase_start |-> a.phrase_start,
                          phrase_end |-> a.phrase_end, from |-> a.from,
                          as_coded |-> TRUE,
                          st |-> apply_init_rules(grammar, frame.self, <<>>,
                                                  a.chart, a.phrase)])]
  /\ pc' = "agenda_loop"
  /\ UNCHANGED <<grammar, string, op, parser, out, inc, client>>

\* "edge = agenda.pop()" and "for rule in self.strategy.edge_rules"
agenda_pop ==
  /\ pc = "agenda_loop"
  /\ Len(frame.turn[1].st.agenda) > 0
  /\ \E i \in DOMAIN frame.turn[1].st.agenda :
       \E rules \in Orders(edge_rules(frame.self)) :
         frame' = [frame EXCEPT !.turn =
                     Some([@[1] EXCEPT
                             !.st = ApplyTo(grammar, rules, @, i,
                                            frame.turn[1].phrase),
                             !.as_coded =
                               /\ @
                               /\ i = Len(frame.turn[1].st.agenda)
                               /\ rules = edge_rules(frame.self)])]
  /\ UNCHANGED <<grammar, string, op, parser, pc, out, inc, client>>

\* "return progressed", and the rest of the turn of _parse_multi_token
agenda_empty ==
  /\ pc = "agenda_loop"
  /\ Len(frame.turn[1].st.agenda) = 0
  /\ LET t == frame.turn[1]
     IN frame' = [frame EXCEPT
                    !.chart = Some(t.st.chart),
                    !.phrase_start = t.phrase_start,
                    !.phrase_end = t.phrase_end,
                    !.progressed = t.st.progressed,
                    !.new_tokens = IF t.st.progressed
                                   THEN Append(@, t.phrase) ELSE @,
                    !.attempts = @ \cup
                      {[from |-> t.from, to |-> t.from + Len(t.phrase),
                        progressed |-> t.st.progressed]},
                    !.turn = Nothing]
  /\ pc' = "phrase_loop"
  /\ UNCHANGED <<grammar, string, op, parser, out, inc, client>>

AgendaNext ==
  \/ \E p \in StrategySet : RobustParser(p)
  \/ \E p \in StrategySet : parse_multi_token_skip_reuse_chart(p)
  \/ skip_loop
  \/ init_rules_turn
  \/ agenda_pop
  \/ agenda_empty
  \/ skip_loop_body
  \/ parse_string

AgendaSpec == AgendaInit /\ [][AgendaNext]_vars

\* The agenda loop as coded: "edge = agenda.pop()" takes the last edge and
\* the edge rules are applied in list order
agenda_turn ==
  /\ pc = "agenda_loop"
  /\ Len(frame.turn[1].st.agenda) > 0
  /\ frame' = [frame EXCEPT !.turn =
                 Some([@[1] EXCEPT
                         !.st = PopAndApply(grammar, frame.self, @,
                                            frame.turn[1].phrase)])]
  /\ UNCHANGED <<grammar, string, op, parser, pc, out, inc, client>>

LoopSources ==
  AgendaSources \cup {RepeatGrammar, NullAndGrammar, NestedGrammar}

LoopInit == StartOn(LoopSources)

LoopNext ==
  \/ \E p \in StrategySet : RobustParser(p)
  \/ \E p \in StrategySet : parse_multi_token_skip_reuse_chart(p)
  \/ skip_loop
  \/ init_rules_turn
  \/ agenda_turn
  \/ agenda_empty
  \/ skip_loop_body
  \/ parse_string

\* The loops of parse_to_chart run on by themselves: a turn of "while
\* agenda:", of "while phrase_end < length" or of the skip loop that can be
\* taken is taken
LoopSpec ==
  /\ LoopInit /\ [][LoopNext]_vars
  /\ WF_vars(agenda_turn) /\ WF_vars(agenda_empty)
  /\ WF_vars(init_rules_turn)
  /\ WF_vars(skip_loop) /\ WF_vars(skip_loop_body)

\* ------------------------------------- batch calls inside a session
\* the grammars and texts of the sessions a batch call comes between
BetweenSources == {CornerGrammar, NestedGrammar, RepeatGrammar}

BetweenInit ==
  \E src \in BetweenSources :
    \E text \in AgendaTexts(src) :
      \E target \in StrategySet :
        /\ grammar = GrammarImpl(src)
        /\ string = text
        /\ op = "parse"
        /\ parser = [p \in StrategySet |-> NotConstructed]
        /\ pc = "idle"
        /\ frame = NoFrame
        /\ out = [p \in StrategySet |-> Pending]
        /\ inc = [p \in StrategySet |-> IncPending]
        /\ client = [target |-> target, pos |-> 0, start |-> 0,
                     between |-> FALSE]

\* parse(string) called on the parser of the session between two calls of
\* incremental_parse, up to the skip loop of
\* parse_multi_token_skip_reuse_chart; the client does so once
parse_between(p) ==
  /\ pc = "idle"
  /\ client.target = p
  /\ \A q \in StrategySet : out[q].status # "pending"
  /\ client.start < client.pos
  /\ ~client.between
  /\ Len(strip_string(string)) # 0
  /\ pc' = "skip_loop"
  /\ frame' = [NoFrame EXCEPT
                 !.op = "parse", !.self = p,
                 !.to_be_parsed =
                   [i \in DOMAIN split(strip_string(string)) |->
                      <<split(strip_string(string))[i]>>]]
  /\ client' = [client EXCEPT !.between = TRUE]
  /\ UNCHANGED <<grammar, string, op, parser, out, inc>>

BetweenNext ==
  \/ \E p \in StrategySet : RobustParser(p)
  \/ \E p \in StrategySet : parse_multi_token_skip_reuse_chart(p)
  \/ \E p \in StrategySet : parse_between(p)
  \/ skip_loop
  \/ phrase_loop
  \/ skip_loop_body
  \/ parse_string
  \/ \E p \in StrategySet : incremental_parse(p)
  \/ incremental_parse_to_chart
  \/ incremental_loop_body
  \/ incremental_parse_return
  \/ \E p \in StrategySet : clear_cache(p)

BetweenSpec == BetweenInit /\ [][BetweenNext]_vars

\* ----------------------------------------------------------------- claims
\* the client has the return value of print_parse(string, strict_match=True)
\* of parser p on a sentence of k copies of "t", single spaces between them
Printed(p) ==
  /\ op = "print_parse"
  /\ out[p].status = "returned"
  /\ Len(Words) >= 1
  /\ string = JoinSP(Rep("t", Len(Words)))

\* the counts k of copies the multiplier stands for
MulLow(other) ==
  IF other.type = "int" THEN other.v
  ELSE IF other.items[1].type = "NoneType" THEN 1
  ELSE IF other.items[1].v < 1 THEN 1 ELSE other.items[1].v

MulOpenEnded(other) ==
  /\ other.type = "tuple"
  /\ IF Len(other.items) = 1 THEN TRUE ELSE other.items[2].type = "NoneType"

MulHigh(other) == IF other.type = "int" THEN other.v ELSE other.items[2].v

MulAccepts(other, k) ==
  /\ MulLow(other) <= k
  /\ IF MulOpenEnded(other) THEN TRUE ELSE k <= MulHigh(other)

\* C1: with GOAL = e * other, print_parse with strict_match returns True on
\* k copies of e's token exactly when max(m, 1) <= k <= n for a range (m, n),
\* when k >= max(m, 1) for an open range (m,) or (m, None), and when k equals
\* the multiplier for an integer; under each of the three strategies.
C1_MulStrictParse ==
  \A p \in StrategySet :
    (grammar.name = "Mul" /\ Printed(p))
      => (out[p].value <=> MulAccepts(grammar.other, Len(Words)))

\* C1 witness: a proper range (m < n) has accepted its longest sentence and
\* the default strategy has returned True
C1_Witness ==
  /\ grammar.name = "Mul"
  /\ grammar.other.type = "tuple"
  /\ ~MulOpenEnded(grammar.other)
  /\ grammar.other.items[1].type = "int"
  /\ grammar.other.items[1].v >= 1
  /\ grammar.other.items[1].v < grammar.other.items[2].v
  /\ Printed(LeftCornerStrategy)
  /\ Len(Words) = grammar.other.items[2].v
  /\ out[LeftCornerStrategy].value

\* --------------------------------------------------- derivations, by hand
\* the number of derivations of the token list toks from the symbol sym in
\* the compiled grammar, counted without a chart
RECURSIVE Derivations(_, _, _)
RECURSIVE SeqDerivations(_, _, _)
Derivations(g, sym, toks) ==
  IF is_terminal(g.elems[sym])
  THEN IF Len(toks) = 1 /\ ElementParse(g.elems[sym], toks[1]).progress
       THEN 1 ELSE 0
  ELSE LET ps == SetToSeq(nonterminal2prod(g, sym))
       IN SumSeq([i \in DOMAIN ps |-> SeqDerivations(g, ps[i].rhs, toks)])

SeqDerivations(g, rhs, toks) ==
  IF Len(toks) < Len(rhs) \/ rhs = <<>> THEN 0
  ELSE IF Len(rhs) = 1 THEN Derivations(g, rhs[1], toks)
  ELSE SumSeq([k \in 1..(Len(toks) - Len(rhs) + 1) |->
                 LET n == Derivations(g, rhs[1], SubSeq(toks, 1, k))
                 IN IF n = 0 THEN 0
                    ELSE n * SeqDerivations(g, Tail(rhs),
                                            SubSeq(toks, k + 1, Len(toks)))])

\* the text has nothing but white space
Blank(text) == \A i \in DOMAIN text : IsSpace(text[i])

\* a batch call is at the point where parse_to_chart has returned
AtTrees == pc = "trees" /\ frame.op \in {"parse", "print_parse"}

\* ------------------------------------------------------------------- C2
Scenario5 ==
  JoinSP(<<"I", "want", "to", "turn", "off", "the", "top", "light", "please">>)

Accepted == {a \in frame.attempts : a.progressed}
Covered(i) == \E a \in Accepted : a.from <= i /\ i < a.to
Failed(i, j) == [from |-> i, to |-> j, progressed |-> FALSE] \in frame.attempts
RECURSIVE Kept_words(_)
Kept_words(i) ==
  IF i >= Len(Words) THEN <<>>
  ELSE (IF Covered(i) THEN <<Words[i + 1]>> ELSE <<>>) \o Kept_words(i + 1)

\* C2: when parse_to_chart returns, every accepted phrase of several words
\* is one accepted token and no shorter phrase from its first word was
\* recognised; every word outside the accepted phrases began no recognised
\* phrase (all phrases from it to the end of the text failed) and is absent
\* from the accepted tokens.  On "I want to turn off the top light please"
\* with the colored-light grammar every strategy finds a tree and accepts
\* "turn off", "top", "light".
C2_PhrasesAndSkips ==
  /\ AtTrees =>
       /\ \A a \in Accepted :
            /\ Slice(Words, a.from, a.to) \in Range(frame.all_parsed_tokens)
            /\ \A k \in (a.from + 1)..(a.to - 1) : Failed(a.from, k)
       /\ \A i \in 0..(Len(Words) - 1) :
            ~Covered(i) => \A j \in (i + 1)..Len(Words) : Failed(i, j)
       /\ Flatten(frame.all_parsed_tokens) = Kept_words(0)
  /\ \A p \in StrategySet :
       (grammar.name = "ColoredLight" /\ string = Scenario5
        /\ out[p].status = "returned")
         => /\ out[p].found
            /\ out[p].tokens = <<<<"turn", "off">>, <<"top">>, <<"light">>>>

\* C2 witness: the default strategy has parsed the scenario with its phrase
C2_Witness ==
  /\ grammar.name = "ColoredLight" /\ string = Scenario5 /\ op = "parse"
  /\ out[LeftCornerStrategy].status = "returned"
  /\ out[LeftCornerStrategy].found
  /\ <<"turn", "off">> \in Range(out[LeftCornerStrategy].tokens)

\* ------------------------------------------------------------------- C3
\* C3: on the same grammar and text, parse() under any two strategies agrees
\* on whether a goal tree is found and on the list of accepted tokens.
C3_StrategiesAgree ==
  \A p, q \in StrategySet :
    (op = "parse" /\ out[p].status = "returned" /\ out[q].status = "returned")
      => /\ out[p].found = out[q].found
         /\ out[p].tokens = out[q].tokens

\* ------------------------------------------------------------------- C4
\* a whole text was fed to parser p in one session, is_final on its last word
FedWhole(p) ==
  /\ op = "parse" /\ client.target = p /\ pc = "idle"
  /\ inc[p].status = "returned" /\ inc[p].is_final
  /\ inc[p].first = 0 /\ inc[p].last = Len(Words)

\* C4: when parse(text) returns a tree, feeding the words of text one at a
\* time with is_final on the last returns a structurally equal tree.
C4_IncrementalEqualsBatch ==
  \A p \in StrategySet :
    (FedWhole(p) /\ out[p].found) => inc[p].tree = out[p].tree

\* ------------------------------------------------------------------- C5
\* C5: parse(text) raises ParseException exactly when the text is blank;
\* otherwise it returns, and it returns (None, None) whenever the accepted
\* tokens have no derivation from the goal (no token accepted included).
C5_FailureIsAValue ==
  \A p \in StrategySet :
    (op = "parse" /\ out[p].status # "pending")
      => /\ out[p].status = ParseException <=> Blank(string)
         /\ out[p].status \in {ParseException, "returned"}
         /\ (out[p].status = "returned"
             /\ Derivations(grammar, grammar.goal, out[p].tokens) = 0)
              => ~out[p].found

\* C5 witness: a text with accepted tokens and no derivation came back with
\* (None, None)
C5_Witness ==
  /\ op = "parse" /\ out[TopDownStrategy].status = "returned"
  /\ out[TopDownStrategy].tokens # <<>>
  /\ Derivations(grammar, grammar.goal, out[TopDownStrategy].tokens) = 0
  /\ ~out[TopDownStrategy].found

\* ------------------------------------------------------------------- C6
\* C6: right after an incremental_parse with is_final, tree or not, and right
\* after clear_cache, the chart is None and the accepted tokens are empty;
\* the first call of the session that follows starts with its own token as
\* the only pending one and with no chart.
C6_FinalResets ==
  \A p \in StrategySet :
    /\ (client.target = p /\ pc = "idle" /\ client.start = client.pos
        /\ client.pos > 0)
         => /\ parser[p].chart = Nothing
            /\ parser[p].accepted_tokens = <<>>
    /\ (client.target = p /\ pc = "incr_loop" /\ frame.progress = 0
        /\ client.pos = client.start + 1)
         => /\ parser[p].to_be_parsed = <<<<Words[client.pos]>>>>
            /\ frame.chart = Nothing /\ frame.num = 1

\* C6 witness: a second session begins after a final call that left words
\* pending and returned no tree
C6_Witness ==
  /\ pc = "incr_loop" /\ frame.progress = 0
  /\ client.start > 0 /\ client.pos = client.start + 1
  /\ inc[client.target].is_final /\ inc[client.target].tree = Nothing
  /\ parser[client.target].to_be_parsed = <<<<Words[client.pos]>>>>

\* ------------------------------------------------------------------- C7
\* C7: every tree parse() can return as the best one is no larger, by
\* size(node) = 1 + the sizes of its children, than any tree the all-trees
\* enumeration gives for the same chart, accepted tokens and goal.
C7_BestTreeIsSmallest ==
  (pc = "trees" /\ frame.op = "parse")
    => LET all == all_trees(frame.chart[1], frame.all_parsed_tokens,
                            grammar.goal)
       IN \A t \in best_tree(frame.chart[1], frame.all_parsed_tokens,
                             grammar.goal) :
            \A i \in DOMAIN all : size(t) <= size(all[i])

\* C7 witness: the goal has roots whose trees differ in size
C7_Witness ==
  /\ pc = "trees" /\ frame.op = "parse"
  /\ LET all == all_trees(frame.chart[1], frame.all_parsed_tokens,
                          grammar.goal)
     IN \E i, j \in DOMAIN all : size(all[i]) < size(all[j])

\* ------------------------------------------------------------------- C8
\* C8: the all-trees enumeration has as many trees as the accepted tokens
\* have derivations from the goal in the compiled grammar, and no tree twice.
C8_OneTreePerDerivation ==
  (AtTrees /\ ~trees_raises(frame.chart[1]))
    => LET all == all_trees(frame.chart[1], frame.all_parsed_tokens,
                            grammar.goal)
       IN /\ Len(all) = Derivations(grammar, grammar.goal,
                                    frame.all_parsed_tokens)
          /\ Cardinality(Range(all)) = Len(all)

\* C8 witness: "a a" under the four two-element alternatives has four trees
C8_Witness ==
  /\ AtTrees /\ grammar.name = "Full"
  /\ frame.all_parsed_tokens = <<<<"a">>, <<"a">>>>
  /\ Len(all_trees(frame.chart[1], frame.all_parsed_tokens,
                   grammar.goal)) = 4

\* ------------------------------------------------------------------- C9
\* the batch call of parser p on k copies of "t" has returned
Copies(p, k) ==
  /\ out[p].status = "returned"
  /\ string = JoinSP(Rep("t", k))

\* C9 as stated: with GOAL = s + (Optional(s) + ZeroOrMore(s)), written in
\* one expression or with the inner sequence bound to a name, "t t" parses
\* and "t" does not.
C9_NullOneLevel ==
  \A p \in StrategySet :
    grammar.name \in {"NullAnd", "NullAndInline"}
      => /\ Copies(p, 2) => out[p].found
         /\ Copies(p, 1) => ~out[p].found

\* C9 amended: the inner sequence o3 = Optional(s) + ZeroOrMore(s) is not
\* nullable for GOAL = s + o3 when o3 is bound to a name of its own: GOAL has
\* no production without o3, "t t" parses and "t" does not.  Written in one
\* expression the inner sequence is merged into GOAL by streamline, and "t"
\* parses as well.
C9_NullOneLevelWhenBound ==
  \A p \in StrategySet :
    /\ grammar.name = "NullAnd"
         => /\ \A prod \in goal_productions(grammar) : "o3" \in Range(prod.rhs)
            /\ Copies(p, 2) => out[p].found
            /\ Copies(p, 1) => ~out[p].found
    /\ grammar.name = "NullAndInline"
         => /\ Copies(p, 2) => out[p].found
            /\ Copies(p, 1) => out[p].found

\* C9 witness: "t" came back without a tree from the grammar with o3 bound
C9_Witness ==
  /\ grammar.name = "NullAnd"
  /\ Copies(TopDownStrategy, 1)
  /\ ~out[TopDownStrategy].found
  /\ out[TopDownStrategy].tokens = <<<<"t">>>>

\* ------------------------------------------------------------------ C10
\* C10: with GOAL = s + Optional(Optional(s)), "t" and "t t" both give a goal
\* tree with every word accepted, under the top-down and the bottom-up
\* strategy.
C10_NestedOptional ==
  \A p \in {TopDownStrategy, BottomUpStrategy} :
    \A k \in {1, 2} :
      (grammar.name = "Optional3" /\ Copies(p, k))
        => /\ out[p].found
           /\ out[p].tokens = Rep(<<"t">>, k)

\* C10 witness: the bottom-up parser has parsed the single "t", where the
\* nested optional is left out
C10_Witness ==
  /\ grammar.name = "Optional3"
  /\ Copies(BottomUpStrategy, 1)
  /\ out[BottomUpStrategy].found

\* ------------------------------------------------------------------ C11
\* C11: in the compiled grammar, a production whose RHS holds the Null
\* sentinel has the RHS [NULL] and nothing else.
C11_NullOnlyAlone ==
  \A P \in grammar.productions :
    (\E i \in DOMAIN P.rhs : grammar.elems[P.rhs[i]].kind = "Null")
      => P.rhs = <<"NULL">>

\* the tree without the derivations of ignored elements and without the
\* words they cover
RECURSIVE Erase(_, _)
Erase(tab, node) ==
  LET kept == SelectSeq(node.children,
                LAMBDA c : ~tab[c.parent.prod.lhs].ignore_in_result)
      kids == [i \in DOMAIN kept |-> Erase(tab, kept[i])]
  IN IF is_leaf(node) THEN node
     ELSE [node EXCEPT !.children = kids,
                       !.lexicon = Flatten([i \in DOMAIN kids |->
                                              kids[i].lexicon])]

\* the client has the tree and the record of parse(string) of parser p
Parsed(p) == out[p].status = "returned" /\ out[p].tree # Nothing

Ignored(node) == grammar.elems[node.parent.prod.lhs].ignore_in_result

\* C12: an ignored element leaves nothing in the parse result: the record
\* of the best tree is the record the tree gives once the derivations of
\* ignored elements, and the words they cover, are taken out of it, so
\* neither their names nor their values reach an ancestor.
C12_IgnoredLeavesNothing ==
  \A p \in StrategySet :
    (Parsed(p) /\ ~Ignored(out[p].tree[1])) =>
      out[p].result =
        to_parse_result(grammar.elems, Erase(grammar.elems, out[p].tree[1]),
                        <<>>, <<>>).result

\* the nodes of a tree, named by their paths of child positions
RECURSIVE Paths(_)
Paths(node) ==
  {<<>>} \cup UNION {{<<i>> \o q : q \in Paths(node.children[i])} :
                      i \in DOMAIN node.children}

RECURSIVE NodeAt(_, _)
NodeAt(node, path) ==
  IF path = <<>> THEN node
  ELSE NodeAt(node.children[Head(path)], Tail(path))

\* the record a node yields, or None
RecordOf(node) == to_parse_result(grammar.elems, node, <<>>, <<>>).result

Lhs(node) == grammar.elems[node.parent.prod.lhs]

\* child i of node yields a record and node merges it item by item
MergedFlat(node, i) ==
  LET kids == node.children
      surviving == {j \in DOMAIN kids : RecordOf(kids[j]) # Nothing}
      count(n) == Cardinality({j \in surviving :
                                 n \in names(RecordOf(kids[j])[1])})
  IN /\ RecordOf(node) # Nothing
     /\ i \in surviving
     /\ \/ is_leaf(kids[i])
        \/ /\ ~as_list(Lhs(node))
           /\ \A n \in names(RecordOf(kids[i])[1]) : count(n) = 1

\* the record of the node at path pn reaches the flat ancestor at the
\* first j positions of pn through item-by-item merges only
FlatChain(tree, j, pn) ==
  /\ ~as_list(Lhs(NodeAt(tree, SubSeq(pn, 1, j))))
  /\ \A m \in j..(Len(pn) - 1) :
       MergedFlat(NodeAt(tree, SubSeq(pn, 1, m)), pn[m + 1])

\* the entries a repetition node holds for its children
ChildEntries(r) == names(r) \ {r._name}

Surviving(node) == SelectSeq(node.children, LAMBDA c : RecordOf(c) # Nothing)

\* the main values of the surviving children after their callbacks ran
ChildValues(node) ==
  [i \in DOMAIN Surviving(node) |-> get(RecordOf(Surviving(node)[i])[1])]

\* the main value the children give to a node
FromChildren(node) ==
  IF ~as_list(Lhs(node)) /\ Len(ChildValues(node)) = 1
  THEN ChildValues(node)[1]
  ELSE VList(ChildValues(node))

\* the main value after the callbacks of the node's element acted on it
RECURSIVE AfterCallbacks(_, _)
AfterCallbacks(fs, r) ==
  IF fs = <<>> THEN get(r) ELSE AfterCallbacks(Tail(fs), Call(Head(fs), r))

RECURSIVE PostOrder(_, _)
PostOrder(node, path) ==
  IF RecordOf(node) = Nothing THEN <<>>
  ELSE Flatten([i \in DOMAIN node.children |->
                  PostOrder(node.children[i], Append(path, i))])
       \o [k \in DOMAIN Lhs(node).post_funcs |->
             Run(path, Lhs(node).post_funcs[k])]

\* child i of node has callbacks and is the only child that brings its name
OwnEntry(node, i) ==
  /\ RecordOf(node) # Nothing /\ RecordOf(node.children[i]) # Nothing
  /\ Lhs(node.children[i]).post_funcs # <<>>
  /\ RecordOf(node.children[i])[1]._name # RecordOf(node)[1]._name
  /\ \A j \in DOMAIN node.children \ {i} :
       RecordOf(node.children[j]) # Nothing =>
         RecordOf(node.children[i])[1]._name
           \notin names(RecordOf(node.children[j])[1])

\* C15: the callbacks run in post-order over the nodes that yield a record,
\* each node's callbacks once and in their declared order; they act on the
\* main value the children gave, and the parent merges what they left.
C15_CallbacksPostOrder ==
  \A p \in StrategySet :
    Parsed(p) =>
      /\ out[p].calls = PostOrder(out[p].tree[1], <<>>)
      /\ \A pn \in Paths(out[p].tree[1]) :
           LET n == NodeAt(out[p].tree[1], pn) IN
           /\ (RecordOf(n) # Nothing /\ Surviving(n) # <<>>) =>
                get(RecordOf(n)[1]) =
                  AfterCallbacks(Lhs(n).post_funcs,
                    set(RecordOf(n)[1], FromChildren(n)))
           /\ \A i \in DOMAIN n.children :
                (OwnEntry(n, i) /\ MergedFlat(n, i)) =>
                  LET c == RecordOf(n.children[i])[1]
                      v == RecordOf(n)[1]._results[c._name]
                  IN v = IF as_list(Lhs(n)) THEN VList(<<get(c)>>)
                       ELSE get(c)

\* two callbacks of one element ran on a node below the root, and a node
\* above ran its own after them
C15_Witness ==
  \E p \in StrategySet :
    /\ Parsed(p)
    /\ \E i, j \in DOMAIN out[p].calls :
         /\ j = i + 1
         /\ out[p].calls[i].path = out[p].calls[j].path
         /\ out[p].calls[i].f = "set" /\ out[p].calls[j].f = "result_sum"
    /\ \E i, j \in DOMAIN out[p].calls :
         /\ i < j
         /\ Len(out[p].calls[j].path) < Len(out[p].calls[i].path)

\* the multipliers the operator has to reject: no integer, an integer below
\* one, a range of three, a range with a negative endpoint or an endpoint
\* that is neither an integer nor None, a range that ends below its start
BadEndpoint(x) ==
  \/ x.type \notin {"int", "NoneType"}
  \/ x.type = "int" /\ x.v < 0

InvalidMultiplier(o) ==
  \/ o.type \notin {"int", "tuple"}
  \/ o.type = "int" /\ o.v <= 0
  \/ o.type = "tuple" /\ Len(o.items) = 3
  \/ o.type = "tuple" /\ \E i \in DOMAIN o.items : BadEndpoint(o.items[i])
  \/ /\ o.type = "tuple" /\ Len(o.items) = 2
     /\ o.items[1].type = "int" /\ o.items[2].type = "int"
     /\ o.items[2].v < o.items[1].v

\* C16: s * other with an invalid multiplier raises ValueError and has built
\* no element: the class body holds s and the shared NULL only.
C16_MulRejectsInvalid ==
  (grammar.name = "Mul" /\ InvalidMultiplier(grammar.other)) =>
    /\ grammar.error = "ValueError"
    /\ DOMAIN grammar.elems = {"NULL", "s"}
    /\ grammar.productions = {}

\* an invalid range was rejected
C16_Witness ==
  /\ grammar.name = "Mul"
  /\ grammar.other = PyTuple(<<PyInt(3), PyInt(2)>>)
  /\ InvalidMultiplier(grammar.other)
  /\ grammar.error = "ValueError"

\* the pattern matches the whole of the token: a match that starts at its
\* first character ends after its last
WholeMatch(pattern, token) ==
  LET instring == LowerPhrase(CharsOf(token))
  IN Len(instring) + 1 \in MatchEnds(LowerPhrase(pattern), instring, 1)

\* C17: a regex terminal with whole-match on accepts a token only when the
\* pattern the user gave matches the entire token.
C17_RegexWholeMatch ==
  \A p \in StrategySet :
    (grammar.name = "Regex" /\ out[p].status = "returned") =>
      \A k \in DOMAIN out[p].tokens :
        WholeMatch(RegexPattern(grammar.other.v), out[p].tokens[k])

\* what clients of a compiled grammar rely on: the productions, the indexes
\* from element to productions, the goal productions and the display names
Compiled(g) ==
  [productions |-> g.productions,
   goal |-> g.goal,
   terminal2prod |-> {<<prod.lhs, prod>> : prod \in {q \in g.productions :
                                                       q.is_terminal}},
   nonterminal2prod |-> {<<id, nonterminal2prod(g, id)>> : id \in DOMAIN g.elems},
   goal_productions |-> goal_productions(g),
   names |-> {<<id, __str__(g.elems, id)>> : id \in DOMAIN g.elems}]

\* the grammar a parser of this strategy has when no other parser was ever
\* built on it
Alone(g, strategy) ==
  LET fresh == [g EXCEPT !.lc_state = "none",
                         !._lc_words = [p \in {} |-> {}],
                         !._lc_cats = [p \in {} |-> {}]]
  IN IF is_leftcorder(strategy) THEN build_leftcorner_table(fresh) ELSE fresh

\* the running parser is about to try a phrase
AtPhrase == pc = "phrase_loop" /\ frame.phrase_end < Len(frame.tokens)

\* the parser on the shared grammar does with the phrase what it would do on
\* a grammar of its own
SameAsAlone ==
  AtPhrase => phrase_turn(grammar) = phrase_turn(Alone(grammar, frame.self))

\* building one more left-corner parser leaves the grammar as it is
OneMoreParser ==
  (pc = "idle" /\ grammar.lc_state = "built") =>
     build_leftcorner_table(grammar) = grammar

\* C18: building parsers on a compiled grammar and parsing with them never
\* changes its productions, indexes, goal productions or display names, and
\* every step of a parser on the shared grammar is the step it would take on
\* a grammar nobody else uses.
C18_GrammarImmutableUnderUse ==
  /\ [][Compiled(grammar') = Compiled(grammar)]_vars
  /\ [](SameAsAlone /\ OneMoreParser)

\* a top-down parser has tried a phrase on a grammar whose left-corner table
\* another parser built, and got a result
C18_Witness ==
  /\ grammar.lc_state = "built"
  /\ \A p \in StrategySet : parser[p].constructed
  /\ \E p \in StrategySet :
       /\ ~is_leftcorder(p)
       /\ out[p].status = "returned"
       /\ out[p].found
       /\ out[p].result # Nothing

\* the agenda of the running _parse_single_token has emptied
AgendaEmptied == pc = "agenda_loop" /\ Len(frame.turn[1].st.agenda) = 0

\* a complete edge of the goal spans the chart
GoalSpans(chart) ==
  \E e \in chart.edges :
    /\ is_complete(e) /\ e.prod.lhs = grammar.goal
    /\ e.start = 0 /\ e.end = chart.size - 1

\* C19: whatever edge leaves the agenda next and in whatever order the edge
\* rules are applied to it, the chart holds the same edges when the agenda
\* empties as with the last edge first and the rules in list order, and a
\* goal edge spans it in the one case exactly when it does in the other.
C19_EdgesWhateverTheOrder ==
  AgendaEmptied =>
    LET t == frame.turn[1]
        ref == _parse_single_token(grammar, frame.self, <<>>, t.chart,
                                   t.phrase)
    IN /\ t.st.chart.edges = ref.chart.edges
       /\ t.st.chart.size = ref.chart.size
       /\ GoalSpans(t.st.chart) <=> GoalSpans(ref.chart)

\* the agenda has emptied after edges left it in another order than the
\* code's, and a goal edge spans the chart
C19_Witness ==
  /\ AgendaEmptied
  /\ ~frame.turn[1].as_coded
  /\ frame.turn[1].st.chart.size > 2
  /\ GoalSpans(frame.turn[1].st.chart)

\* the class statement has run and nothing else
JustCompiled ==
  /\ pc = "idle"
  /\ grammar.error = None
  /\ \A p \in StrategySet : ~parser[p].constructed

\* the source of the grammar, with objects no grammar has compiled
Written ==
  CHOOSE src \in Sources :
    src.name = grammar.name /\ (src.name \in {"Mul", "Regex"} =>
                                  src.other = grammar.other)

\* C20: the productions of a compiled grammar are those its source gives
\* when compiled from new objects, also when another grammar compiled the
\* objects before.
C20_CompilationDeterministic ==
  JustCompiled => grammar.productions = GrammarImpl(Written).productions

\* ------------------------------------------------------- the chart states
\* P holds of the chart in every state the agenda loop of
\* _parse_single_token goes through from st on, one state per turn of the loop
RECURSIVE AlongAgenda(_, _, _, _, _)
AlongAgenda(P(_), g, strategy, st, phrase) ==
  IF Len(st.agenda) = 0 THEN P(st.chart)
  ELSE IF P(st.chart)
       THEN AlongAgenda(P, g, strategy, PopAndApply(g, strategy, st, phrase),
                        phrase)
       ELSE FALSE

\* P holds of the chart in one of these states
RECURSIVE OnceAlongAgenda(_, _, _, _, _)
OnceAlongAgenda(P(_), g, strategy, st, phrase) ==
  \/ P(st.chart)
  \/ /\ Len(st.agenda) > 0
     /\ OnceAlongAgenda(P, g, strategy, PopAndApply(g, strategy, st, phrase),
                        phrase)

\* the state the agenda loop starts in for the phrase about to be tried
TurnStart ==
  apply_init_rules(grammar, frame.self, <<>>, phrase_args.chart,
                   phrase_args.phrase)

\* P holds of every chart of the state: the chart of the running call, the
\* charts the parsers keep between calls, and the charts the agenda loop
\* goes through
EveryChart(P(_)) ==
  /\ \A i \in DOMAIN frame.chart : P(frame.chart[i])
  /\ \A p \in StrategySet : \A i \in DOMAIN parser[p].chart :
       P(parser[p].chart[i])
  /\ \A i \in DOMAIN frame.turn : P(frame.turn[i].st.chart)
  /\ AtPhrase => AlongAgenda(P, grammar, frame.self, TurnStart,
                             phrase_args.phrase)

\* P holds of some chart of the state
SomeChart(P(_)) ==
  \/ \E i \in DOMAIN frame.chart : P(frame.chart[i])
  \/ \E i \in DOMAIN frame.turn : P(frame.turn[i].st.chart)
  \/ AtPhrase /\ OnceAlongAgenda(P, grammar, frame.self, TurnStart,
                                 phrase_args.phrase)

\* the cell (i, j) of the table of the chart
Cell(chart, i, j) == {e \in chart.edges : e.start = i /\ e.end = j}

EdgesInside(chart) ==
  \A e \in chart.edges :
    /\ 0 <= e.start /\ e.start <= e.end /\ e.end <= chart.size
    /\ 0 <= e.dot /\ e.dot <= rhs_len(e.prod)
    /\ e \in Cell(chart, e.start, e.end)

SpannedAndBegun(chart) ==
  /\ chart.size = 3
  /\ \E e \in chart.edges :
       /\ e.start = 0 /\ e.end = 2
       /\ e.dot = rhs_len(e.prod) /\ e.dot >= 2
  /\ \E e \in chart.edges : e.dot = 0 /\ e.start = e.end /\ e.start > 0

TuplesAsLongAsDot(chart) ==
  \A e \in DOMAIN chart.edge2backpointers :
    e.dot > 0 => \A t \in chart.edge2backpointers[e] : Len(t) = e.dot

\* C22: in every chart, every backpointer tuple of an edge whose dot has
\* moved has as many children as the dot has moved over.
C22_BackpointerLength == EveryChart(TuplesAsLongAsDot)

\* an edge whose dot has moved over two elements has backpointers
TwoChildren(chart) ==
  \E e \in DOMAIN chart.edge2backpointers :
    /\ e.dot >= 2
    /\ chart.edge2backpointers[e] # {}
    /\ \E f \in DOMAIN chart.edge2backpointers :
         f.dot = 1 /\ f.prod = e.prod /\ chart.edge2backpointers[f] # {}

C22_Witness == SomeChart(TwoChildren)

\* ------------------------------------------------------ the Complete rule
\* the state the Complete rule finds: the edge has left the agenda and the
\* rules listed before Complete have been applied
BeforeComplete(g, strategy, st, phrase) ==
  LET rules == edge_rules(strategy)
  IN ApplyTo(g, SubSeq(rules, 1, Len(rules) - 1), st, Len(st.agenda), phrase)

\* the calls self.merge_and_forward_dot(edge) of one application of the
\* Complete rule, as pairs <<self, edge>>
MergeCalls(g, strategy, st, phrase) ==
  LET edge == st.agenda[Len(st.agenda)]
      s == BeforeComplete(g, strategy, st, phrase)
  IN IF is_complete(edge)
     THEN LET fs == filter_edges_for_completion(s.chart, edge.start,
                                                edge.prod.lhs)
          IN {<<fs[i], edge>> : i \in DOMAIN fs}
     ELSE LET fs == filter_completed_edges(s.chart, edge.end,
                                           edge.prod.rhs[edge.dot + 1])
          IN {<<edge, fs[i]>> : i \in DOMAIN fs}

\* the two assertions of Edge.merge_and_forward_dot
MergeAsserted(self, edge) ==
  /\ edge.start = self.end
  /\ self.dot < rhs_len(self.prod)

RECURSIVE AlongAgendaCalls(_, _, _, _, _)
AlongAgendaCalls(Q(_), g, strategy, st, phrase) ==
  \/ Len(st.agenda) = 0
  \/ /\ Q(MergeCalls(g, strategy, st, phrase))
     /\ AlongAgendaCalls(Q, g, strategy,
                         PopAndApply(g, strategy, st, phrase), phrase)

RECURSIVE OnceAlongAgendaCalls(_, _, _, _, _)
OnceAlongAgendaCalls(Q(_), g, strategy, st, phrase) ==
  /\ Len(st.agenda) > 0
  /\ \/ Q(MergeCalls(g, strategy, st, phrase))
     \/ OnceAlongAgendaCalls(Q, g, strategy,
                             PopAndApply(g, strategy, st, phrase), phrase)

AllAsserted(calls) ==
  \A c \in calls : MergeAsserted(c[1], c[2]) /\ is_complete(c[2])

\* C23: every call of merge_and_forward_dot made by the Complete rule is on
\* an incomplete edge and a complete edge that starts where the incomplete
\* one ends, so neither assertion of the method fails.
C23_MergeAssertionsHold ==
  AtPhrase => AlongAgendaCalls(AllAsserted, grammar, frame.self, TurnStart,
                               phrase_args.phrase)

\* an edge popped from the agenda is merged with two edges of the chart
CompleteFromAgenda(calls) ==
  \E c \in calls : \E d \in calls : c[2] = d[2] /\ c[1] # d[1]
IncompleteFromAgenda(calls) ==
  \E c \in calls : \E d \in calls : c[1] = d[1] /\ c[2] # d[2]

C23_Witness ==
  /\ AtPhrase
  /\ OnceAlongAgendaCalls(CompleteFromAgenda, grammar, frame.self, TurnStart,
                          phrase_args.phrase)
  /\ OnceAlongAgendaCalls(IncompleteFromAgenda, grammar, frame.self,
                          TurnStart, phrase_args.phrase)

\* ------------------------------------------------------- the backpointers
\* the children c_1 .. c_d of a tuple of edge e realise the first d elements
\* of the right-hand side, left to right, over the span of e
WellFormedTuple(chart, e, t) ==
  /\ Len(t) >= 1
  /\ Len(t) <= rhs_len(e.prod)
  /\ \A i \in DOMAIN t :
       /\ t[i] \in chart.edges
       /\ is_complete(t[i])
       /\ t[i].prod.lhs = e.prod.rhs[i]
  /\ t[1].start = e.start
  /\ \A i \in 1..(Len(t) - 1) : t[i + 1].start = t[i].end
  /\ t[Len(t)].end = e.end

WellFormedTuples(chart) ==
  \A e \in DOMAIN chart.edge2backpointers :
    \A t \in chart.edge2backpointers[e] : WellFormedTuple(chart, e, t)

\* the words under the leaves of a tree, left to right
RECURSIVE Leaves(_)
Leaves(node) ==
  IF node.children = <<>> THEN node.lexicon
  ELSE Flatten([i \in DOMAIN node.children |-> Leaves(node.children[i])])

LeavesCoverTokens ==
  (AtTrees /\ ~trees_raises(frame.chart[1]))
    => LET all == all_trees(frame.chart[1], frame.all_parsed_tokens,
                            grammar.goal)
           words == Flatten(frame.all_parsed_tokens)
       IN /\ \A i \in DOMAIN all : Leaves(all[i]) = words
          /\ \A t \in best_tree(frame.chart[1], frame.all_parsed_tokens,
                                grammar.goal) : Leaves(t) = words

\* C24: in every chart every backpointer tuple lists complete edges of the
\* chart, one per element of the right-hand side up to the dot, adjacent and
\* spanning the edge; the leaves of every extracted tree read the accepted
\* tokens once and in order.
C24_BackpointersWellFormed ==
  /\ EveryChart(WellFormedTuples)
  /\ LeavesCoverTokens

\* C24 witness: a tree of three words is extracted from a chart in which an
\* edge has tuples of two children and an edge has two tuples
C24_Witness ==
  /\ AtTrees
  /\ Len(Flatten(frame.all_parsed_tokens)) >= 3
  /\ all_trees(frame.chart[1], frame.all_parsed_tokens, grammar.goal) # <<>>
  /\ LET bp == frame.chart[1].edge2backpointers
     IN /\ \E e \in DOMAIN bp : \E t \in bp[e] : Len(t) >= 2
        /\ \E e \in DOMAIN bp : Cardinality(bp[e]) >= 2

\* ------------------------------------------------------- the agenda loop
\* the edges a turn of the agenda loop has put on the agenda: the agenda
\* after the turn is the agenda before it less the edge taken, and then these
Enqueued(i) ==
  LET ag == frame.turn[1].st.agenda
      rest == SubSeq(ag, 1, i - 1) \o SubSeq(ag, i + 1, Len(ag))
      after == frame'.turn[1].st.agenda
  IN IF Len(after) >= Len(rest) /\ SubSeq(after, 1, Len(rest)) = rest
     THEN {SubSeq(after, Len(rest) + 1, Len(after))}
     ELSE {}

OnlyNewEdges(new) ==
  /\ \A k \in DOMAIN new :
       /\ new[k] \notin frame.turn[1].st.chart.edges
       /\ new[k] \in frame'.turn[1].st.chart.edges
  /\ Cardinality(Range(new)) = Len(new)

EnqueuedOnlyWhenNew ==
  (pc = "agenda_loop" /\ pc' = "agenda_loop")
    => \E i \in DOMAIN frame.turn[1].st.agenda :
         \E new \in Enqueued(i) : OnlyNewEdges(new)

SingleTokens(tokens) == Len(Flatten(tokens))

\* one iteration of the skip loop, from the call of _parse_multi_token to the
\* end of the loop body
SkipIteration ==
  pc = "phrase_loop" /\ pc' \notin {"phrase_loop", "agenda_loop"}

InBatch == frame.op \in {"parse", "print_parse"}

\* the iteration ends the loop, or drops the first pending token, or drops
\* the accepted tokens and the token after them
ShortensPending ==
  LET n == SingleTokens(frame.new_tokens)
      pending == frame.to_be_parsed
  IN \/ /\ pc' = "trees"
        /\ n = Len(pending)
     \/ /\ pc' = "skip_loop"
        /\ n = 0
        /\ frame'.to_be_parsed = Tail(pending)
        /\ Len(frame'.to_be_parsed) = Len(pending) - 1
     \/ /\ pc' = "skip_loop"
        /\ 0 < n /\ n < Len(pending)
        /\ frame'.to_be_parsed = SubSeq(pending, n + 2, Len(pending))
        /\ Len(frame'.to_be_parsed) = Len(pending) - (n + 1)
        /\ Flatten(frame.new_tokens) = Flatten(SubSeq(pending, 1, n))

PhraseEndRises ==
  (pc \in {"phrase_loop", "agenda_loop"} /\ pc' = "phrase_loop")
    => /\ frame'.phrase_end = frame.phrase_end + 1
       /\ frame'.phrase_end <= Len(frame.tokens)
       /\ frame'.tokens = frame.tokens

\* C26: every iteration of the skip loop ends the loop or shortens the
\* pending tokens, by one when nothing was accepted and by the accepted
\* prefix and the token after it on a partial parse; every turn of the
\* phrase loop moves the phrase end up by one, never past the token count;
\* and the batch driver, once in its skip loop, leaves it.
C26_DriverTerminates ==
  /\ [][(SkipIteration /\ InBatch) => ShortensPending]_vars
  /\ [][PhraseEndRises]_vars
  /\ (pc = "skip_loop") ~> (pc = "trees")

\* C26 witness: the driver has left the skip loop after a partial parse that
\* left tokens pending and after dropping a token that began no phrase
C26_Witness ==
  /\ pc = "trees"
  /\ \E a \in frame.attempts : a.progressed /\ a.from > 0
  /\ \E a \in frame.attempts : ~a.progressed /\ a.to = Len(Words)
  /\ Len(Words) >= 3
  /\ SingleTokens(frame.all_parsed_tokens) + 2 <= Len(Words)

\* -------------------------------------------------------- the chart grows
\* no stored edge and no position in use lies outside the table
InsideTable(chart) ==
  /\ chart.size < chart.max_size
  /\ \A e \in chart.edges : e.start < chart.max_size /\ e.end < chart.max_size

\* add_edge is about to grow the chart: the next position fills the table
AboutToGrow(chart) == chart.size + 1 >= chart.max_size

\* growing pads the table and touches nothing else: the table of the grown
\* chart is the padded table of the chart, cell by cell
GrowthKeepsCells(chart) ==
  AboutToGrow(chart)
    => LET grown == increase_capacity(chart)
       IN /\ increase_capacity_edges(TableOf(chart), chart.max_size)
               = TableOf(grown)
          /\ \A e \in chart.edges :
               e \in TableOf(grown)[e.start + 1][e.end + 1]
          /\ grown.edge2backpointers = chart.edge2backpointers
          /\ grown.edges = chart.edges

\* the chart a step of the phrase loop or of the agenda loop works on
ChartBefore ==
  IF pc = "agenda_loop" THEN frame.turn[1].st.chart ELSE phrase_args.chart

\* a step in which the chart grew has kept every edge and every tuple
GrownStepKeeps ==
  (/\ pc \in {"phrase_loop", "agenda_loop"} /\ pc' = "agenda_loop"
   /\ frame'.turn[1].st.chart.max_size > ChartBefore.max_size)
    => LET old == ChartBefore
           new == frame'.turn[1].st.chart
       IN /\ new.max_size = old.max_size + inc_size
          /\ old.edges \subseteq new.edges
          /\ \A e \in DOMAIN old.edge2backpointers :
               /\ e \in DOMAIN new.edge2backpointers
               /\ old.edge2backpointers[e] \subseteq new.edge2backpointers[e]

\* C27: growing the chart keeps every stored edge in its cell and every
\* backpointer tuple, and in every chart the positions in use and the ends
\* of the stored edges lie inside the table, also beyond the initial
\* capacity.
C27_GrowthTransparent ==
  /\ TableOf(IncrementalChart) = Chart_edges(init_size)
  /\ [](EveryChart(InsideTable) /\ EveryChart(GrowthKeepsCells))
  /\ [][GrownStepKeeps]_vars

\* C27 witness: a chart that has grown holds a goal edge over more tokens
\* than the initial capacity and an edge stored before it grew
C27_Witness ==
  /\ pc = "trees"
  /\ frame.chart[1].max_size = init_size + inc_size
  /\ frame.chart[1].size = init_size + 2
  /\ GoalSpans(frame.chart[1])
  /\ \E e \in frame.chart[1].edges : e.start = 0 /\ e.end = 1

\* --------------------------------------------------- the chart only grows
\* chart new holds what chart old held
Extends(old, new) ==
  /\ old.edges \subseteq new.edges
  /\ old.size <= new.size
  /\ \A e \in DOMAIN old.edge2backpointers :
       /\ e \in DOMAIN new.edge2backpointers
       /\ old.edge2backpointers[e] \subseteq new.edge2backpointers[e]

\* the chart of the running call and the chart a parser keeps between the
\* calls of a session are extended by every step that keeps them
OnlyExtended ==
  /\ (frame.chart # Nothing /\ frame'.chart # Nothing)
       => Extends(frame.chart[1], frame'.chart[1])
  /\ \A p \in StrategySet :
       (parser[p].chart # Nothing /\ parser'[p].chart # Nothing)
         => Extends(parser[p].chart[1], parser'[p].chart[1])

CompleteEdges(chart) == {e \in chart.edges : is_complete(e)}

\* a turn of the phrase loop whose phrase made no progress
NoProgress ==
  pc = "phrase_loop" /\ pc' = "phrase_loop" /\ ~frame'.progressed

\* the attempt on a chart that has a position (size > 0; an empty chart is
\* first given position 0 and the initial edges of the goal)
NothingAccepted ==
  LET old == frame.chart[1]
      new == frame'.chart[1]
  IN /\ \A e \in new.edges \ old.edges : e.end # phrase_args.chart.chart_i
     /\ old.size > 0 => new.size = old.size
     /\ CompleteEdges(new) = CompleteEdges(old)

Returned == pc = "phrase_loop" /\ frame.phrase_end >= Len(frame.tokens)

\* the tokens accepted so far in the session: those of the earlier calls
\* and those of the call that returns
AcceptedBefore ==
  IF frame.op = "incremental_parse" THEN parser[frame.self].accepted_tokens
  ELSE frame.all_parsed_tokens

AcceptedSoFar == AcceptedBefore \o frame.new_tokens

\* the edges a scan has put into the chart
Scanned(chart) ==
  {e \in chart.edges : e.prod.is_terminal /\ is_complete(e)}

Scans(e, token) == ElementParse(grammar.elems[e.prod.lhs], token).progress

Aligned(chart, accepted) ==
  /\ chart.size - 1 = Len(accepted)
  /\ \A k \in DOMAIN accepted :
       \E e \in Scanned(chart) :
         e.start = k - 1 /\ e.end = k /\ Scans(e, accepted[k])
  /\ \A e \in Scanned(chart) :
       /\ e.start = e.end - 1
       /\ e.end \in DOMAIN accepted
       /\ Scans(e, accepted[e.end])

\* _parse_multi_token has been handed a chart that holds something
Resumed == pc = "phrase_loop" /\ frame.phrase_end = 0 /\ frame.chart[1].size > 0

\* C29: when _parse_multi_token returns and a token has been accepted in the
\* session, the chart has one position more than there are accepted tokens,
\* the k-th accepted token is what was scanned into the span (k-1, k), and
\* nothing else was scanned; a chart that is used again resumes at
\* chart_i = size - 1.
C29_PositionsAligned ==
  /\ (Returned /\ AcceptedSoFar # <<>>)
       => Aligned(frame.chart[1], AcceptedSoFar)
  /\ Resumed => frame.chart[1].chart_i = frame.chart[1].size - 1
  /\ (Resumed /\ AcceptedBefore # <<>>)
       => frame.chart[1].chart_i = Len(AcceptedBefore)

\* C29 witness: the call returns on a chart it was handed, with a token it
\* accepted and a phrase it tried in vain, and a word of the string is not
\* among the accepted tokens
C29_Witness ==
  /\ Returned
  /\ AcceptedBefore # <<>>
  /\ frame.new_tokens # <<>>
  /\ \E a \in frame.attempts : ~a.progressed
  /\ Len(Flatten(AcceptedSoFar)) < Len(Words)

\* --------------------------------------------------- the pending tokens
InCall == frame.op = "incremental_parse"

PendingOf(p) == parser[p].to_be_parsed

\* the step that enters incremental_parse, and the token it is given
Called == pc = "idle" /\ pc' = "incr_loop"

FedToken == <<Words[client.pos + 1]>>

\* the list the call appends to: a session that holds no chart starts over
StartedFrom(p) == IF parser[p].chart = Nothing THEN <<>> ELSE PendingOf(p)

AppendsTo(List(_)) ==
  Called => LET p == frame'.self
            IN /\ parser'[p].to_be_parsed = Append(List(p), FedToken)
               /\ frame'.num = Len(List(p)) + 1

AppendsToStarted == AppendsTo(StartedFrom)

AppendsToPrevious == AppendsTo(PendingOf)

\* the words of the k-th suffix of the pending list, as tried by the call
SuffixTried(k) ==
  [from |-> client.pos - frame.num + k, to |-> client.pos,
   progressed |-> FALSE]

\* _parse_multi_token is entered with the longest suffix not tried yet, and
\* every longer one has failed
LongestFirst ==
  (InCall /\ pc = "phrase_loop" /\ frame.phrase_end = 0) =>
    LET n == Cardinality(frame.attempts)
        pending == PendingOf(frame.self)
    IN /\ n < frame.num
       /\ Len(pending) = frame.num
       /\ frame.tokens = <<Flatten(Slice(pending, n, Len(pending)))>>
       /\ frame.attempts = {SuffixTried(k) : k \in 0..(n - 1)}

\* incremental_parse_to_chart has returned
AtReturn == InCall /\ pc = "incr_return"

\* the loop stops at the first suffix accepted, or when all have failed
StopsAtFirst ==
  AtReturn =>
    LET n == Cardinality(frame.attempts)
        pending == PendingOf(frame.self)
    IN /\ Len(frame.parsed_tokens) <= 1
       /\ IF frame.parsed_tokens # <<>>
          THEN /\ pending = <<>>
               /\ n \in 1..frame.num
               /\ frame.attempts =
                    {SuffixTried(k) : k \in 0..(n - 2)} \cup
                    {[SuffixTried(n - 1) EXCEPT !.progressed = TRUE]}
               /\ Len(frame.parsed_tokens[1]) = frame.num - n + 1
          ELSE /\ pending = [i \in 1..frame.num |->
                               <<Words[client.pos - frame.num + i]>>]
               /\ frame.attempts = {SuffixTried(k) : k \in 0..(frame.num - 1)}

\* between the append and the return the list is left alone or emptied, and
\* incremental_parse adds what incremental_parse_to_chart returned
KeptOrCleared ==
  /\ (InCall /\ pc # "incr_return")
       => LET p == frame.self
          IN \/ parser'[p].to_be_parsed = PendingOf(p)
             \/ /\ parser'[p].to_be_parsed = <<>>
                /\ frame'.is_parsed
  /\ AtReturn
       => LET p == frame.self
          IN /\ parser'[p].to_be_parsed = PendingOf(p)
             /\ parser'[p].accepted_tokens \in
                  {<<>>, parser[p].accepted_tokens \o frame.parsed_tokens}

Authored == _build_grammar_recursively(grammar.elems, grammar.goal)

AllNull(p) == \A i \in DOMAIN p.rhs : grammar.elems[p.rhs[i]].kind = "Null"

NonTerminalIdentity(p) == ~p.is_terminal /\ p.rhs = <<p.lhs>>

\* N: the left-hand sides of the all-Null productions
Nulled == {p.lhs : p \in {q \in Authored : AllNull(q)}}

Remaining == {p \in Authored : ~AllNull(p) /\ ~NonTerminalIdentity(p)}

NullPositions(p) == {i \in DOMAIN p.rhs : p.rhs[i] \in Nulled}

\* rhs without the positions of D, in the order of rhs
RECURSIVE DeleteAt(_, _)
DeleteAt(rhs, D) ==
  IF rhs = <<>> THEN <<>>
  ELSE LET n == Len(rhs)
           front == DeleteAt(SubSeq(rhs, 1, n - 1), D)
       IN IF n \in D THEN front ELSE Append(front, rhs[n])

Expansions(p) ==
  {[p EXCEPT !.rhs = IF DeleteAt(p.rhs, D) = <<>> THEN <<"NULL">>
                     ELSE DeleteAt(p.rhs, D)] :
     D \in SUBSET NullPositions(p) \ {{}}}
  \ {q \in Authored : AllNull(q)}

\* C31: the compiled productions are the authored ones that are neither
\* all-Null nor non-terminal identities, the productions these give when a
\* non-empty set of their positions holding a left-hand side of an all-Null
\* production is deleted (L -> [NULL] when nothing is left, unless that was
\* an authored all-Null production), and NULL -> [NULL]; nothing else.
C31_NullExpansionExact ==
  JustCompiled =>
    grammar.productions =
      Remaining \cup UNION {Expansions(p) : p \in Remaining}
      \cup {NullProduction}

\* C31 witness: a compiled grammar with a production that has two positions
\* to delete, and one that leaves nothing when all are deleted
C31_Witness ==
  /\ JustCompiled
  /\ \E p \in Remaining : Cardinality(NullPositions(p)) >= 2
  /\ \E p \in Remaining : NullPositions(p) = DOMAIN p.rhs

\* --------------------------------------------------- identity productions
\* C32: a compiled grammar holds no production A -> [A] of a non-terminal A.
C32_NoIdentityProduction ==
  grammar.error = None =>
    \A p \in grammar.productions : ~NonTerminalIdentity(p)

\* ------------------------------------------------ the left-corner tables
\* the constructor of a parser with the left-corner strategy has run:
\* "returned" with the tables built, or left by the RuntimeError Python
\* raises when add_to_leftcorner calls itself without end
LeftCornerConstructor ==
  CASE grammar.lc_state = "built" -> "returned"
    [] grammar.lc_state = "RuntimeError" -> "raised"
    [] OTHER -> "not called"

\* C34: build_leftcorner_table terminates on every compiled grammar, so the
\* constructor of a parser with the left-corner strategy returns.
C34_LeftCornerTableTerminates == LeftCornerConstructor # "raised"

\* the productions one step from those of S: the productions of their RHS[0]
LeftCorners(g, S) == {p \in g.productions : \E q \in S : p.lhs = q.rhs[1]}

\* the productions reachable from S by taking the productions of RHS[0]
\* again and again
RECURSIVE LeftCornerClosure(_, _)
LeftCornerClosure(g, S) ==
  LET next == S \cup LeftCorners(g, S)
  IN IF next = S THEN S ELSE LeftCornerClosure(g, next)

\* C33: once build_leftcorner_table has returned, lc_words of a production
\* is the set of terminal productions reachable from it through RHS[0], and
\* lc_cats is the production with the non-terminal productions so reachable.
C33_LeftCornerIsClosure ==
  grammar.lc_state = "built" =>
    \A P \in grammar.productions :
      LET reached == LeftCornerClosure(grammar, {P})
      IN /\ get_left_corner_terminals(grammar, P) =
              {q \in reached : q.is_terminal}
         /\ get_left_corner_nonterminals(grammar, P) =
              {P} \cup {q \in reached : ~q.is_terminal}

\* C33 witness: the tables are built and some production has a left-corner
\* terminal two steps or more away, behind two non-terminal productions
C33_Witness ==
  /\ grammar.lc_state = "built"
  /\ \E P \in grammar.productions :
       /\ ~P.is_terminal
       /\ Cardinality(get_left_corner_nonterminals(grammar, P)) >= 3
       /\ \E w \in get_left_corner_terminals(grammar, P) :
            w \notin LeftCorners(grammar, {P})
                   \cup LeftCorners(grammar, LeftCorners(grammar, {P}))

\* ------------------------------------------------------- repetition nodes
\* the trees a client has in hand: the best tree of a returned parse, and
\* every tree of the chart while parse() walks them
ExtractedTrees ==
  {out[p].tree[1] : p \in {q \in StrategySet : Parsed(q)}}
    \cup (IF AtTrees /\ ~trees_raises(frame.chart[1])
          THEN Range(all_trees(frame.chart[1], frame.all_parsed_tokens,
                               grammar.goal))
          ELSE {})

\* the children of node n are matches of the repeated element, one after
\* the other from the start of n to its end
FlatRepetition(n) ==
  LET E == n.parent.prod.lhs
      e == grammar.elems[E].exprs[1]
      kids == n.children
      k == Len(kids)
  IN /\ k >= 1
     /\ \A i \in 1..k : /\ kids[i].parent.prod.lhs = e
                         /\ kids[i].parent.prod.lhs # E
                         /\ kids[i].parent.start < kids[i].parent.end
     /\ kids[1].parent.start = n.parent.start
     /\ kids[k].parent.end = n.parent.end
     /\ \A i \in 1..(k - 1) : kids[i].parent.end = kids[i + 1].parent.start

\* C35: in every extracted tree the node of a OneOrMore or ZeroOrMore
\* element has one child for each repetition it matched, each a node of the
\* repeated element, in input order, and no child of the element itself.
C35_RepetitionsFlat ==
  \A tree \in ExtractedTrees :
    \A pn \in Paths(tree) :
      as_list(Lhs(NodeAt(tree, pn))) => FlatRepetition(NodeAt(tree, pn))

\* C35 witness: a repetition node that matched three times
C35_Witness ==
  \E tree \in ExtractedTrees :
    \E pn \in Paths(tree) :
      /\ as_list(Lhs(NodeAt(tree, pn)))
      /\ Len(NodeAt(tree, pn).children) >= 3

\* -------------------------------------------------- the flattening rule
\* record r holds value v under key k, alone or as a member of a list
Holds(r, k, v) ==
  /\ k \in names(r)
  /\ \/ r._results[k] = v
     \/ r._results[k].kind = "list" /\ v \in Range(r._results[k].val)

\* the positions of the children of node that yield a record
SurvivingAt(node) ==
  {j \in DOMAIN node.children : RecordOf(node.children[j]) # Nothing}

\* the record of child i of node
ChildRecord(node, i) == RecordOf(node.children[i])[1]

\* the record of node holds every item of the record of child i (the main
\* value of node is set after the children are added, so its key is left
\* out), and does not hold the record itself
MergedKeyByKey(node, i) ==
  LET r == RecordOf(node)[1]
      c == ChildRecord(node, i)
  IN /\ \A k \in names(c) \ {r._name} : Holds(r, k, c._results[k])
     /\ ~Holds(r, c._name, VResult(c))

\* the record of node holds the record of child i under the name of the
\* child, in a list when a sibling has the name too
AttachedWhole(node, i) ==
  LET r == RecordOf(node)[1]
      c == ChildRecord(node, i)
  IN /\ Holds(r, c._name, VResult(c))
     /\ (\E j \in SurvivingAt(node) \ {i} :
           c._name \in names(ChildRecord(node, j)))
          => r._results[c._name].kind = "list"

\* no sibling of child i contributes a name that child i contributes
NoNameConflict(node, i) ==
  \A k \in names(ChildRecord(node, i)) :
    \A j \in SurvivingAt(node) \ {i} : k \notin names(ChildRecord(node, j))

\* every surviving child of every node of the best trees whose name is not
\* the name of its parent is merged key by key when Flat holds of it, and
\* attached whole when not
FlatteningRule(Flat(_, _)) ==
  \A p \in StrategySet :
    Parsed(p) =>
      \A pn \in Paths(out[p].tree[1]) :
        LET n == NodeAt(out[p].tree[1], pn) IN
        RecordOf(n) # Nothing =>
          \A i \in SurvivingAt(n) :
            ChildRecord(n, i)._name # RecordOf(n)[1]._name =>
              IF Flat(n, i) THEN MergedKeyByKey(n, i)
              ELSE AttachedWhole(n, i)

FlatAsStated(n, i) == ~as_list(Lhs(n)) /\ NoNameConflict(n, i)

FlatAlsoLeaves(n, i) == is_leaf(n.children[i]) \/ FlatAsStated(n, i)

\* C36 as stated: a surviving child record is merged key by key into the
\* record of its parent only if the parent is no repetition and no sibling
\* contributes one of its names, and is attached whole otherwise.
C36_FlatteningAsStated == FlatteningRule(FlatAsStated)

\* C36: a surviving child record is merged key by key into the record of
\* its parent when the child is a leaf, or when the parent is no repetition
\* and no sibling contributes one of its names; in every other case it is
\* attached whole under its own name, in a list when the name is taken.
C36_FlatteningRule == FlatteningRule(FlatAlsoLeaves)

\* C36 witness: a best tree with a leaf merged into a repetition node, a
\* child attached whole, and a child that is no leaf merged key by key
C36_Witness ==
  \E p \in StrategySet :
    /\ Parsed(p)
    /\ \E pn \in Paths(out[p].tree[1]) :
         LET n == NodeAt(out[p].tree[1], pn) IN
         /\ RecordOf(n) # Nothing /\ as_list(Lhs(n))
         /\ \E i \in SurvivingAt(n) : is_leaf(n.children[i])
    /\ \E pn \in Paths(out[p].tree[1]) :
         LET n == NodeAt(out[p].tree[1], pn) IN
         /\ RecordOf(n) # Nothing
         /\ \E i \in SurvivingAt(n) :
              /\ ~FlatAlsoLeaves(n, i)
              /\ ChildRecord(n, i)._name # RecordOf(n)[1]._name
    /\ \E pn \in Paths(out[p].tree[1]) :
         LET n == NodeAt(out[p].tree[1], pn) IN
         /\ RecordOf(n) # Nothing
         /\ \E i \in SurvivingAt(n) :
              /\ ~is_leaf(n.children[i]) /\ FlatAsStated(n, i)
              /\ ChildRecord(n, i)._name # RecordOf(n)[1]._name

\* ------------------------------------------------------- canonical names
\* the And and Or objects that got a canonical name: no name was set on
\* them and no variable of the class is bound to them
Unnamed ==
  {id \in DOMAIN grammar.elems :
     /\ grammar.elems[id].kind \in ExpressionKinds
     /\ ~grammar.elems[id].has_name
     /\ grammar.elems[id].variable_name = "None"
     /\ grammar.elems[id].canonical_name # "None"}

\* the canonical name of an expression of the given kind over children
CanonicalOver(kind, children) ==
  kind \o "(" \o
    join(", ", [i \in DOMAIN children |-> __str__(grammar.elems, children[i])])
    \o ")"

\* the grammar is compiled from objects no grammar has compiled before
FromNewObjects == grammar.elems = GrammarImpl(Written).elems

RECURSIVE PrefixOf(_, _, _)
RECURSIVE SeqPrefixOf(_, _, _)
PrefixOf(g, sym, toks) ==
  IF toks = <<>> THEN TRUE
  ELSE IF is_terminal(g.elems[sym])
  THEN Len(toks) = 1 /\ ElementParse(g.elems[sym], toks[1]).progress
  ELSE \E p \in nonterminal2prod(g, sym) : SeqPrefixOf(g, p.rhs, toks)

SeqPrefixOf(g, rhs, toks) ==
  IF toks = <<>> THEN TRUE
  ELSE IF rhs = <<>> THEN FALSE
  ELSE \/ PrefixOf(g, rhs[1], toks)
       \/ \E k \in 1..(Len(toks) - 1) :
            /\ Derivations(g, rhs[1], SubSeq(toks, 1, k)) > 0
            /\ SeqPrefixOf(g, Tail(rhs), SubSeq(toks, k + 1, Len(toks)))

\* the edges of the chart a goal production reaches: the edges of the goal
\* from position 0 and, again and again, the edges of the element an
\* incomplete reached edge expects where it ends
ReachedFrom(chart, S) ==
  S \cup {e \in chart.edges :
            \E f \in S : /\ ~is_complete(f) /\ f.end = e.start
                         /\ get_rhs_after_dot(f) = e.prod.lhs}

RECURSIVE ReachClosure(_, _)
ReachClosure(chart, S) ==
  LET next == ReachedFrom(chart, S)
  IN IF next = S THEN S ELSE ReachClosure(chart, next)

GoalReached(chart) ==
  ReachClosure(chart, {e \in chart.edges :
                         e.prod.lhs = grammar.goal /\ e.start = 0})

\* the terminal productions the incomplete edge e expects, directly or as
\* the left corner of the element after its dot
ExpectedTerminals(e) ==
  LET rhs == get_rhs_after_dot(e)
  IN IF is_terminal(grammar.elems[rhs]) THEN {terminal2prod(grammar, rhs)}
     ELSE {t \in LeftCornerClosure(grammar, nonterminal2prod(grammar, rhs)) :
             t.is_terminal}

\* an incomplete edge a goal production reaches ends at position i and
\* expects a terminal that matches the phrase
Expected(chart, i, phrase) ==
  \E e \in GoalReached(chart) :
    /\ ~is_complete(e) /\ e.end = i
    /\ \E t \in ExpectedTerminals(e) :
         ElementParse(grammar.elems[t.lhs], phrase).progress

\* a call of the top-down or of the left-corner parser is in its phrase loop
Predicting ==
  /\ pc = "phrase_loop"
  /\ frame.self \in {TopDownStrategy, LeftCornerStrategy}

RECURSIVE Embeds(_, _, _)
Embeds(tokens, from, to) ==
  IF tokens = <<>> THEN TRUE
  ELSE \E i \in from..(to - Len(Head(tokens))) :
         /\ Slice(Words, i, i + Len(Head(tokens))) = Head(tokens)
         /\ Embeds(Tail(tokens), i + Len(Head(tokens)), to)

\* the tokens the incremental session of the client has accepted, and the
\* tokens of the call that is about to return
SessionTokens ==
  IF pc = "incr_return"
  THEN parser[frame.self].accepted_tokens \o frame.parsed_tokens
  ELSE IF client.target \in StrategySet
       THEN parser[client.target].accepted_tokens
       ELSE <<>>

\* every word the batch driver dropped is followed by a phrase it tried
\* from the next word
ResumesAfterDropped ==
  \A i \in 0..(Len(Words) - 2) :
    ~Covered(i) => \E a \in frame.attempts : a.from = i + 1

\* C39: the accepted tokens are phrases of the input words in input order
\* and no word is in two of them, when parse_to_chart returns and after
\* every incremental_parse of a session; where the batch driver stalls it
\* drops one word and tries again from the next.
C39_InputKeptInOrder ==
  /\ AtTrees => /\ Embeds(frame.all_parsed_tokens, 0, Len(Words))
                /\ ResumesAfterDropped
  /\ (pc \in {"idle", "incr_return"})
       => Embeds(SessionTokens, client.start, client.pos)

\* C39 witness: the batch call of the parser has returned two tokens or
\* more and not every word, and its incremental session has accepted two
\* tokens and not every word it was fed
C39_Witness ==
  /\ pc = "incr_return"
  /\ frame.parsed_tokens # <<>>
  /\ Len(SessionTokens) >= 2
  /\ Len(Flatten(SessionTokens)) < client.pos - client.start
  /\ out[frame.self].status = "returned"
  /\ Len(out[frame.self].tokens) >= 2
  /\ Len(Flatten(out[frame.self].tokens)) < Len(Words)

\* ------------------------------------------- batch calls and the session
\* a step of a batch call: the call is entered, runs or returns
BatchStep ==
  \/ frame.op \in {"parse", "print_parse"}
  \/ frame'.op \in {"parse", "print_parse"}

\* the loop of incremental_parse_to_chart on the pending list, by itself:
\* the chart it returns and the tokens it parsed
RECURSIVE SuffixesAlone(_, _, _, _)
SuffixesAlone(p, chart, pending, progress) ==
  IF progress >= Len(pending) THEN [chart |-> chart, parsed_tokens |-> <<>>]
  ELSE LET phrase == Flatten(Slice(pending, progress, Len(pending)))
           c0 == IF chart = Nothing THEN IncrementalChart ELSE chart[1]
           c1 == [c0 EXCEPT !.chart_i = IF c0.size = 0 THEN 1 ELSE c0.size]
           r == _parse_single_token(grammar, p, <<>>, c1, phrase)
       IN IF r.progressed
          THEN [chart |-> Some(r.chart), parsed_tokens |-> <<phrase>>]
          ELSE SuffixesAlone(p, Some(r.chart), pending, progress + 1)

\* the session of parser p after incremental_parse has been given the words
\* from + 1 .. to of the text and nothing else was called on the parser
RECURSIVE SessionAlone(_, _, _)
SessionAlone(p, from, to) ==
  IF to <= from
  THEN [chart |-> Nothing, accepted_tokens |-> <<>>, to_be_parsed |-> <<>>]
  ELSE LET before == SessionAlone(p, from, to - 1)
           pending == Append(before.to_be_parsed, <<Words[to]>>)
           r == SuffixesAlone(p, before.chart, pending, 0)
       IN [chart |-> r.chart,
           accepted_tokens |-> before.accepted_tokens \o r.parsed_tokens,
           to_be_parsed |-> IF r.parsed_tokens # <<>> THEN <<>> ELSE pending]

\* incremental_parse is about to return from the chart and the accepted
\* tokens it would have without the batch calls
ReturnsAsAlone ==
  pc = "incr_return" =>
    LET alone == SessionAlone(frame.self, client.start, client.pos)
    IN /\ frame.chart = alone.chart
       /\ parser[frame.self].accepted_tokens \o frame.parsed_tokens
            = alone.accepted_tokens
       /\ parser[frame.self].to_be_parsed = alone.to_be_parsed

\* C40: no step of parse(), parse_string() or parse_to_chart() changes the
\* session chart, the accepted tokens or the pending list of a parser, and
\* an incremental_parse of a session with a batch call in between returns
\* from the chart and the accepted tokens of the session without it.
C40_BatchLeavesSession ==
  [][(BatchStep => parser' = parser) /\ ReturnsAsAlone]_vars

\* C40 witness: incremental_parse returns with a token it accepted, in a
\* session that held a chart and an accepted token when parse() was called
\* on its parser
C40_Witness ==
  /\ pc = "incr_return"
  /\ client.between
  /\ frame.parsed_tokens # <<>>
  /\ parser[frame.self].accepted_tokens # <<>>
  /\ client.pos - client.start >= 2

====
